---- MODULE Spec2Model ----
(***************************************************************************)
(* The automation engine of cycle: the conversation driver                 *)
(* (automate_workflow), the tool dispatcher (ToolCollection.run), the      *)
(* action executor (ComputerTool.__call__) and the history pruner          *)
(* (_filter_to_n_most_recent_images).                                      *)
(*                                                                         *)
(* Python values are represented as follows.                               *)
(*   str            a sequence of string atoms (an f-string is the         *)
(*                  concatenation of its pieces)                           *)
(*   Optional[x]    <<>> for None / an absent dict key, <<x>> otherwise    *)
(*   JSON value     a record [t, s, n]: its type tag, its text, its ints   *)
(*   exception      the name of its class                                  *)
(***************************************************************************)
EXTENDS Integers, Sequences, FiniteSets, TLC

\* Bounds of the model.
MaxCalls == 3
MaxKeep == 2
MaxHistory == 5
MaxCoord == 12
MaxTokens == 3
MaxSessions == 2
MaxFrames == 2
MaxRuns == 2
MaxActions == 2

\* Program constants.
MAX_WIDTH == 1280
COORDINATE_LENGTH == 2
MaxAttempts == 3

----------------------------------------------------------------------------
(* Values *)

None == <<>>
Some(x) == <<x>>

\* Truth value of an Optional[str]: None and "" are falsy.
Truthy(o) == o # <<>> /\ o[1] # <<>>

StrV(s) == [t |-> "str", s |-> s, n |-> <<>>]
IntV(i) == [t |-> "int", s |-> <<>>, n |-> <<i>>]
ListV(l) == [t |-> "list", s |-> <<>>, n |-> l]
StrListV(l) == [t |-> "strlist", s |-> l, n |-> <<>>]

\* A tool input: the dict of a tool_use block, keys action / text / coordinate.
Input(a, t, c) == [action |-> a, text |-> t, coordinate |-> c]
EmptyInput == Input(None, None, None)

\* bool(dict): a dict is truthy when it has a key.
InputTruthy(in) == in.action # None \/ in.text # None \/ in.coordinate # None

Min(a, b) == IF a < b THEN a ELSE b
Max(a, b) == IF a > b THEN a ELSE b

----------------------------------------------------------------------------
(* tools/base.py *)

ToolResult(o, e, b, s) == [output |-> o, error |-> e, base64_image |-> b, system |-> s]
ToolFailure(e) == ToolResult(None, Some(e), None, None)

ResultFields == {"output", "error", "base64_image", "system"}

\* Mutant of ToolResultBool: the system field is not looked at.
ToolResultBoolNoSystem(r) == \E f \in ResultFields \ {"system"} : Truthy(r[f])

\* ToolResult.__bool__: any(getattr(self, field.name) for field in fields(self))
ToolResultBool(r) == \E f \in ResultFields : Truthy(r[f])

Combined(v) == [raised |-> FALSE, value |-> v]
CannotCombine == [raised |-> TRUE, value |-> None]

\* Mutant of CombineFields: the right operand comes first.
CombineFieldsSwapped(field, other_field, concatenate) ==
    IF Truthy(field) /\ Truthy(other_field)
    THEN IF concatenate
         THEN Combined(Some(other_field[1] \o field[1]))
         ELSE CannotCombine
    ELSE Combined(IF Truthy(field) THEN field ELSE other_field)

\* Mutant of CombineFields: concatenate is taken to be True for every field.
CombineFieldsAlways(field, other_field, concatenate) ==
    IF Truthy(field) /\ Truthy(other_field)
    THEN Combined(Some(field[1] \o other_field[1]))
    ELSE Combined(IF Truthy(field) THEN field ELSE other_field)

\* combine_fields of ToolResult.__add__: raises ValueError("Cannot combine
\* tool results.") or returns field + other_field or (field or other_field).
CombineFields(field, other_field, concatenate) ==
    IF Truthy(field) /\ Truthy(other_field)
    THEN IF concatenate
         THEN Combined(Some(field[1] \o other_field[1]))
         ELSE CannotCombine
    ELSE Combined(IF Truthy(field) THEN field ELSE other_field)

\* ToolResult.__add__: the ValueError of combine_fields leaves __add__ before
\* the merged ToolResult is constructed.
ToolResultAdd(a, b) ==
    LET o == CombineFields(a.output, b.output, TRUE)
        e == CombineFields(a.error, b.error, TRUE)
        i == CombineFields(a.base64_image, b.base64_image, FALSE)
        y == CombineFields(a.system, b.system, TRUE)
    IN  IF o.raised \/ e.raised \/ i.raised \/ y.raised
        THEN [raised |-> TRUE, value |-> ToolResult(None, None, None, None)]
        ELSE [raised |-> FALSE, value |-> ToolResult(o.value, e.value, i.value, y.value)]

----------------------------------------------------------------------------
(* tools/computer.py *)

\* round(a / b) for a >= 0, b > 0: Python rounds halves to the even integer.
RoundDiv(a, b) ==
    LET q == a \div b
        r == a % b
    IN  IF 2 * r < b THEN q
        ELSE IF 2 * r > b THEN q + 1
        ELSE IF q % 2 = 0 THEN q ELSE q + 1

\* The screen sizes used in this development for which the double product
\* height * (MAX_WIDTH / width) lies just below the whole number
\* height * MAX_WIDTH / width: 537 * (1280 / 1432) is 479.99999999999994.
\* For every other size used here the product has the exact value's floor.
ProductFallsShort == {<<1432, 537>>}

\* int(self.height * self.scale_factor)
TargetHeight(w, h) ==
    LET q == (h * MAX_WIDTH) \div w
    IN  IF <<w, h>> \in ProductFallsShort THEN q - 1 ELSE q

\* ComputerTool.__init__: the scaling context of a real screen <<w, h>>.
NewScreen(w, h) ==
    IF w > MAX_WIDTH
    THEN [width |-> w, height |-> h, target_width |-> MAX_WIDTH,
          target_height |-> TargetHeight(w, h)]
    ELSE [width |-> w, height |-> h, target_width |-> w, target_height |-> h]

\* ComputerTool._scale_coordinates where both scaling factors are binary
\* fractions, which a float holds exactly (2560x1440, 1920x1080, 1280x800).
ScaleCoordinates(scr, source, x, y) ==
    IF source = "api"
    THEN <<RoundDiv(x * scr.width, scr.target_width),
           RoundDiv(y * scr.height, scr.target_height)>>
    ELSE <<RoundDiv(x * scr.target_width, scr.width),
           RoundDiv(y * scr.target_height, scr.height)>>

RECURSIVE Gcd(_, _)
Gcd(a, b) == IF b = 0 THEN a ELSE Gcd(b, a % b)

RECURSIVE IsPowerOfTwo(_)
IsPowerOfTwo(n) == n = 1 \/ (n > 1 /\ n % 2 = 0 /\ IsPowerOfTwo(n \div 2))

\* Whether the float size / target is the exact quotient.
ExactFactor(size, target) == IsPowerOfTwo(target \div Gcd(size, target))

\* round() of a float that stands for a / b. The scaling factor is a float:
\* unless it is exact, a product or quotient whose true value lies halfway
\* between two integers comes out just below or just above the half, and
\* round gives the one neighbour or the other. Any other value is further
\* from the half than the float error.
Rounds(a, b, exact) ==
    IF 2 * (a % b) = b /\ ~exact
    THEN {a \div b, (a \div b) + 1}
    ELSE {RoundDiv(a, b)}

\* Mutant of ScaleOutcomes: both directions multiply by the scaling factor.
ScaleOutcomesOneWay(scr, source, x, y) ==
    {<<u, v>> :
        u \in Rounds(x * scr.width, scr.target_width,
                     ExactFactor(scr.width, scr.target_width)),
        v \in Rounds(y * scr.height, scr.target_height,
                     ExactFactor(scr.height, scr.target_height))}

\* ComputerTool._scale_coordinates on any screen: the values it may return.
ScaleOutcomes(scr, source, x, y) ==
    LET ex == ExactFactor(scr.width, scr.target_width)
        ey == ExactFactor(scr.height, scr.target_height)
    IN  IF source = "api"
        THEN {<<u, v>> : u \in Rounds(x * scr.width, scr.target_width, ex),
                         v \in Rounds(y * scr.height, scr.target_height, ey)}
        ELSE {<<u, v>> : u \in Rounds(x * scr.target_width, scr.width, ex),
                         v \in Rounds(y * scr.target_height, scr.height, ey)}

MoveActions == {"mouse_move", "left_click_drag"}
TextActions == {"key", "type"}
PlainActions == {"left_click", "right_click", "double_click", "screenshot",
                 "cursor_position"}

OsCall(fn, x, y) == [fn |-> fn, x |-> x, y |-> y, keys |-> <<>>]
HotkeyCall(keys) == [fn |-> "hotkey", x |-> 0, y |-> 0, keys |-> keys]

\* A str whose characters matter is the sequence of its characters.
Uppers == <<"A", "B", "C", "D", "E", "F", "G", "H", "I", "J", "K", "L", "M", "N", "O", "P", "Q", "R", "S", "T", "U", "V", "W", "X", "Y", "Z">>
Lowers == <<"a", "b", "c", "d", "e", "f", "g", "h", "i", "j", "k", "l", "m", "n", "o", "p", "q", "r", "s", "t", "u", "v", "w", "x", "y", "z">>

\* str.lower()
LowerChar(c) ==
    IF \E i \in 1..Len(Uppers) : Uppers[i] = c
    THEN Lowers[CHOOSE i \in 1..Len(Uppers) : Uppers[i] = c]
    ELSE c

StrLower(s) == [i \in 1..Len(s) |-> LowerChar(s[i])]

StartsWith(s, w) == Len(s) >= Len(w) /\ SubSeq(s, 1, Len(w)) = w

\* str.replace(old, new): every occurrence of old, leftmost first.
RECURSIVE Replace(_, _, _)
Replace(s, old, new) ==
    IF s = <<>> THEN <<>>
    ELSE IF StartsWith(s, old)
    THEN new \o Replace(SubSeq(s, Len(old) + 1, Len(s)), old, new)
    ELSE <<Head(s)>> \o Replace(Tail(s), old, new)

\* Mutant of Split: empty parts are dropped.
RECURSIVE SplitNonEmpty(_, _)
SplitNonEmpty(s, sep) ==
    IF \A i \in 1..Len(s) : s[i] # sep
    THEN IF s = <<>> THEN <<>> ELSE <<s>>
    ELSE LET i == CHOOSE k \in 1..Len(s) :
                      s[k] = sep /\ \A j \in 1..(k - 1) : s[j] # sep
         IN  (IF i = 1 THEN <<>> ELSE <<SubSeq(s, 1, i - 1)>>)
                 \o SplitNonEmpty(SubSeq(s, i + 1, Len(s)), sep)

\* str.split(sep) for a separator of one character.
RECURSIVE Split(_, _)
Split(s, sep) ==
    IF \A i \in 1..Len(s) : s[i] # sep
    THEN <<s>>
    ELSE LET i == CHOOSE k \in 1..Len(s) :
                      s[k] = sep /\ \A j \in 1..(k - 1) : s[j] # sep
         IN  <<SubSeq(s, 1, i - 1)>> \o Split(SubSeq(s, i + 1, Len(s)), sep)

Whitespace == {" ", "\t", "\n"}

\* str.strip()
RECURSIVE Strip(_)
Strip(s) ==
    IF s = <<>> THEN s
    ELSE IF Head(s) \in Whitespace THEN Strip(Tail(s))
    ELSE IF s[Len(s)] \in Whitespace THEN Strip(SubSeq(s, 1, Len(s) - 1))
    ELSE s

\* special_keys, as <<key, value>> pairs.
SpecialKeys ==
    { <<<<"c", "t", "r", "l">>, <<"c", "t", "r", "l">>>>,
      <<<<"c", "o", "n", "t", "r", "o", "l">>, <<"c", "t", "r", "l">>>>,
      <<<<"a", "l", "t">>, <<"a", "l", "t">>>>,
      <<<<"o", "p", "t", "i", "o", "n">>, <<"a", "l", "t">>>>,
      <<<<"s", "h", "i", "f", "t">>, <<"s", "h", "i", "f", "t">>>>,
      <<<<"c", "o", "m", "m", "a", "n", "d">>, <<"c", "o", "m", "m", "a", "n", "d">>>>,
      <<<<"t", "a", "b">>, <<"t", "a", "b">>>>,
      <<<<"e", "n", "t", "e", "r">>, <<"e", "n", "t", "e", "r">>>>,
      <<<<"r", "e", "t", "u", "r", "n">>, <<"e", "n", "t", "e", "r">>>>,
      <<<<"e", "s", "c">>, <<"e", "s", "c">>>>,
      <<<<"e", "s", "c", "a", "p", "e">>, <<"e", "s", "c">>>>,
      <<<<"s", "p", "a", "c", "e">>, <<"s", "p", "a", "c", "e">>>>,
      <<<<"s", "p", "a", "c", "e", "b", "a", "r">>, <<"s", "p", "a", "c", "e">>>>,
      <<<<"u", "p">>, <<"u", "p">>>>,
      <<<<"d", "o", "w", "n">>, <<"d", "o", "w", "n">>>>,
      <<<<"l", "e", "f", "t">>, <<"l", "e", "f", "t">>>>,
      <<<<"r", "i", "g", "h", "t">>, <<"r", "i", "g", "h", "t">>>> }

\* special_keys.get(key, key)
SpecialKey(key) ==
    IF \E p \in SpecialKeys : p[1] = key
    THEN (CHOOSE p \in SpecialKeys : p[1] = key)[2]
    ELSE key

\* Lines 175-202: the key_sequence handed to pyautogui.hotkey.
KeySequence(text) ==
    LET parts == Split(Replace(StrLower(text), <<"s", "u", "p", "e", "r">>, <<"c", "o", "m", "m", "a", "n", "d">>), "+")
        stripped == [i \in 1..Len(parts) |-> Strip(parts[i])]
        mac == [i \in 1..Len(parts) |->
                   IF stripped[i] = <<"c", "m", "d">> THEN <<"c", "o", "m", "m", "a", "n", "d">> ELSE stripped[i]]
    IN  [i \in 1..Len(parts) |-> SpecialKey(mac[i])]

Raises(kind, msg) == [kind |-> kind, message |-> msg, os |-> <<>>]
Proceeds(os) == [kind |-> "ok", message |-> <<>>, os |-> os]

\* Mutant of IsListOfTwo: a longer list is let through.
IsListOfTwoOrMore(v) ==
    /\ v.t \in {"list", "strlist"}
    /\ Len(v.n) + Len(v.s) >= COORDINATE_LENGTH

\* isinstance(coordinate, list) and len(coordinate) == COORDINATE_LENGTH
IsListOfTwo(v) ==
    /\ v.t \in {"list", "strlist"}
    /\ Len(v.n) + Len(v.s) = COORDINATE_LENGTH

\* all(isinstance(i, int) and i >= 0 for i in coordinate)
AllNonNegativeInts(v) ==
    /\ v.t = "list"
    /\ \A k \in 1..Len(v.n) : v.n[k] >= 0

\* ComputerTool.__call__ up to its first OS call: the exception it raises, or
\* the OS calls it goes on to make, in order. The argument of write is left
\* out; what pyautogui.write does with a text that is no str is pyautogui's,
\* and is an outcome of the OS call (OsEnd, OsFails).
ComputerCall(scr, in) ==
    IF in.action = None
    THEN \* action is a required keyword-only parameter of __call__
         Raises("TypeError", <<>>)
    ELSE
    LET action == in.action[1]
        text == in.text
        coordinate == in.coordinate
    IN  IF action \in MoveActions THEN
            IF coordinate = None
            THEN Raises("ToolError", <<"Coordinate is required for ", action, ".">>)
            ELSE IF text # None
            THEN Raises("ToolError", <<"Text is not accepted for ", action, ".">>)
            ELSE IF ~IsListOfTwo(coordinate[1])
            THEN Raises("ToolError", <<"Coordinate must be a list of length 2.">>)
            ELSE IF ~AllNonNegativeInts(coordinate[1])
            THEN Raises("ToolError",
                        <<"Coordinate must be a list of non-negative integers.">>)
            ELSE LET xy == ScaleCoordinates(scr, "api", coordinate[1].n[1],
                                            coordinate[1].n[2])
                 IN  IF action = "mouse_move"
                     THEN Proceeds(<<OsCall("moveTo", xy[1], xy[2])>>)
                     ELSE Proceeds(<<OsCall("mouseDown", 0, 0),
                                     OsCall("moveTo", xy[1], xy[2]),
                                     OsCall("mouseUp", 0, 0)>>)
        ELSE IF action \in TextActions THEN
            IF text = None
            THEN Raises("ToolError", <<"Text is required for ", action, "/">>)
            ELSE IF coordinate # None
            THEN Raises("ToolError", <<"Coordinate is not accepted for ", action, ".">>)
            ELSE IF action = "key"
            THEN IF text[1].t # "str"
                 THEN \* text.lower() on a value that is no str
                      Raises("AttributeError", <<>>)
                 ELSE Proceeds(<<HotkeyCall(KeySequence(text[1].s))>>)
            ELSE Proceeds(<<OsCall("write", 0, 0)>>)
        ELSE IF action \in PlainActions THEN
            IF text # None
            THEN Raises("ToolError", <<"Text is not accepted for ", action, ".">>)
            ELSE IF coordinate # None
            THEN Raises("ToolError", <<"Coordinate is not accepted for ", action, ".">>)
            ELSE IF action = "screenshot" THEN Proceeds(<<OsCall("screenshot", 0, 0)>>)
            ELSE IF action = "cursor_position" THEN Proceeds(<<OsCall("position", 0, 0)>>)
            ELSE IF action = "double_click" THEN Proceeds(<<OsCall("doubleClick", 0, 0)>>)
            ELSE Proceeds(<<OsCall("click", 0, 0)>>)
        ELSE Raises("ToolError", <<"Invalid action: ", action, ".">>)

\* The ToolResult ComputerTool.__call__ returns once its OS calls are done:
\* ptr is the real pointer position, shot the number of the capture.
ComputerResult(scr, in, ptr, shot) ==
    LET action == in.action[1]
    IN  CASE action = "mouse_move" ->
               LET xy == ScaleCoordinates(scr, "api", in.coordinate[1].n[1],
                                          in.coordinate[1].n[2])
               IN  ToolResult(Some(<<"Mouse moved successfully to X=", ToString(xy[1]),
                                     ", Y=", ToString(xy[2])>>), None, None, None)
          [] action = "left_click_drag" ->
               ToolResult(Some(<<"Mouse drag action completed.">>), None, None, None)
          [] action = "key" ->
               ToolResult(Some(<<"Key combination '">> \o in.text[1].s \o <<"' pressed.">>),
                          None, None, None)
          [] action = "type" ->
               ToolResult(Some(<<"Typed text: ">> \o in.text[1].s), None, None, None)
          [] action = "screenshot" ->
               ToolResult(None, None, Some(<<"png", ToString(shot)>>), None)
          [] action = "cursor_position" ->
               LET xy == ScaleCoordinates(scr, "computer", ptr[1], ptr[2])
               IN  ToolResult(Some(<<"X=", ToString(xy[1]), ", Y=", ToString(xy[2])>>),
                              None, None, None)
          [] action = "left_click" ->
               ToolResult(Some(<<"Left click performed.">>), None, None, None)
          [] action = "right_click" ->
               ToolResult(Some(<<"Right click performed.">>), None, None, None)
          [] OTHER ->
               ToolResult(Some(<<"Double click performed.">>), None, None, None)

----------------------------------------------------------------------------
(* tools/collection.py *)

\* The keys of tool_map: automate_workflow registers one ComputerTool.
ToolMap == {"computer"}

\* Mutants of Catches: an except clause that is missing, or too wide.
CatchesNothing(kind) == FALSE
CatchesEverything(kind) == TRUE

\* except ToolError: the exception kinds ToolCollection.run converts.
Catches(kind) == kind = "ToolError"

\* Mutant of Run: the lookup falls back on the computer tool.
RunAnyName(scr, name, in) ==
    LET o == ComputerCall(scr, in)
    IN  IF o.kind = "ok"
        THEN [kind |-> "os", result |-> ToolFailure(<<>>), exc |-> "",
              os |-> o.os, invoked |-> TRUE]
        ELSE IF o.kind = "ToolError"
        THEN [kind |-> "return", result |-> ToolFailure(o.message),
              exc |-> "", os |-> <<>>, invoked |-> TRUE]
        ELSE [kind |-> "raise", result |-> ToolFailure(<<>>), exc |-> o.kind,
              os |-> <<>>, invoked |-> TRUE]

\* ToolCollection.run up to the executor's first OS call: "return" with a
\* ToolResult, "raise" with the exception that leaves run, or "os" with the
\* OS calls the executor awaits. invoked tells whether the executor was called.
Run(scr, name, in) ==
    IF name \notin ToolMap
    THEN [kind |-> "return", result |-> ToolFailure(<<"Tool ", name, " is invalid">>),
          exc |-> "", os |-> <<>>, invoked |-> FALSE]
    ELSE LET o == ComputerCall(scr, in)
         IN  IF o.kind = "ok"
             THEN [kind |-> "os", result |-> ToolFailure(<<>>), exc |-> "",
                   os |-> o.os, invoked |-> TRUE]
             ELSE IF Catches(o.kind)
             THEN [kind |-> "return", result |-> ToolFailure(o.message),
                   exc |-> "", os |-> <<>>, invoked |-> TRUE]
             ELSE [kind |-> "raise", result |-> ToolFailure(<<>>), exc |-> o.kind,
                   os |-> <<>>, invoked |-> TRUE]

----------------------------------------------------------------------------
(* workflow_automation.py: the conversation *)

\* Content blocks of a model response (objects of the client library).
TextBlock(t) == [type |-> "text", text |-> t, id |-> <<>>, name |-> "", input |-> EmptyInput]
ToolUse(id, name, in) == [type |-> "tool_use", text |-> <<>>, id |-> id, name |-> name, input |-> in]

\* Content of a tool_result block: a str (kind "str") or a list of text and
\* image dicts (kind "list").
TextItem(t) == [type |-> "text", text |-> t, data |-> <<>>]
ImageItem(d) == [type |-> "image", text |-> <<>>, data |-> d]
StrContent(t) == [kind |-> "str", text |-> t, items |-> <<>>]
ListContent(items) == [kind |-> "list", text |-> <<>>, items |-> items]

\* A message {"role", "content"}: content is a str (kind "str"), the list of
\* the response's block objects (kind "blocks") or a list of tool_result
\* dicts (kind "results").
StrMessage(role, t) == [role |-> role, kind |-> "str", text |-> t, blocks |-> <<>>, results |-> <<>>]
BlocksMessage(role, bs) == [role |-> role, kind |-> "blocks", text |-> <<>>, blocks |-> bs, results |-> <<>>]
ResultsMessage(role, rs) == [role |-> role, kind |-> "results", text |-> <<>>, blocks |-> <<>>, results |-> rs]

InitialMessages ==
    <<StrMessage("user", <<"Repeat the workflow considering the user instruction.">>)>>

\* Mutant of PrependSystemToolResult: the system annotation is left out.
PrependNothing(result, result_text) == result_text

\* _prepend_system_tool_result
PrependSystemToolResult(result, result_text) ==
    IF Truthy(result.system)
    THEN <<"<system>">> \o result.system[1] \o <<"</system>\n">> \o result_text
    ELSE result_text

\* Mutant of MakeApiToolResult: every block carries the same id.
MakeApiToolResultOneId(result, tool_use_id) ==
    [type |-> "tool_result",
     content |-> IF Truthy(result.error)
                 THEN StrContent(result.error[1])
                 ELSE ListContent(<<>>),
     tool_use_id |-> <<"toolu">>,
     is_error |-> Truthy(result.error)]

\* _make_api_tool_result
MakeApiToolResult(result, tool_use_id) ==
    LET textPart == IF Truthy(result.output)
                    THEN <<TextItem(PrependSystemToolResult(result, result.output[1]))>>
                    ELSE <<>>
        imagePart == IF Truthy(result.base64_image)
                     THEN <<ImageItem(result.base64_image[1])>>
                     ELSE <<>>
    IN  [type |-> "tool_result",
         content |-> IF Truthy(result.error)
                     THEN StrContent(PrependSystemToolResult(result, result.error[1]))
                     ELSE ListContent(textPart \o imagePart),
         tool_use_id |-> tool_use_id,
         is_error |-> Truthy(result.error)]

----------------------------------------------------------------------------
(* workflow_automation.py: _filter_to_n_most_recent_images *)

RECURSIVE CountImageItems(_)
CountImageItems(items) ==
    IF items = <<>> THEN 0
    ELSE (IF Head(items).type = "image" THEN 1 ELSE 0) + CountImageItems(Tail(items))

\* The image dicts met when iterating tool_result.get("content", []): a str
\* content yields characters, none of which is a dict.
ImagesOfResult(tr) == IF tr.content.kind = "list" THEN CountImageItems(tr.content.items) ELSE 0

RECURSIVE ImagesOfResults(_)
ImagesOfResults(rs) ==
    IF rs = <<>> THEN 0 ELSE ImagesOfResult(Head(rs)) + ImagesOfResults(Tail(rs))

\* The tool_result blocks of a message: the dict items of a list content.
ToolResultBlocks(m) == IF m.kind = "results" THEN m.results ELSE <<>>

RECURSIVE TotalImages(_)
TotalImages(msgs) ==
    IF msgs = <<>> THEN 0
    ELSE ImagesOfResults(ToolResultBlocks(Head(msgs))) + TotalImages(Tail(msgs))

\* Mutant of ImagesToRemove: one image too many is kept.
ImagesToRemoveLessOne(msgs, images_to_keep) == TotalImages(msgs) - images_to_keep - 1

\* Mutant of ImagesToRemove: every pruning takes at least one image.
ImagesToRemoveAtLeastOne(msgs, images_to_keep) ==
    Max(1, TotalImages(msgs) - images_to_keep)

\* images_to_remove = total_images - images_to_keep
ImagesToRemove(msgs, images_to_keep) == TotalImages(msgs) - images_to_keep

\* Mutant of FilterItems: images_to_remove is not counted down.
RECURSIVE FilterItemsUncounted(_, _)
FilterItemsUncounted(items, rem) ==
    IF items = <<>> THEN <<(<<>>), rem>>
    ELSE IF Head(items).type = "image" /\ rem > 0
         THEN FilterItemsUncounted(Tail(items), rem)
         ELSE LET rest == FilterItemsUncounted(Tail(items), rem)
              IN  <<(<<Head(items)>>) \o rest[1], rest[2]>>

\* Mutant of FilterItems: while images are left to remove, text goes too.
RECURSIVE FilterItemsWithText(_, _)
FilterItemsWithText(items, rem) ==
    IF items = <<>> THEN <<(<<>>), rem>>
    ELSE IF rem > 0
         THEN FilterItemsWithText(Tail(items),
                                  IF Head(items).type = "image" THEN rem - 1 ELSE rem)
         ELSE LET rest == FilterItemsWithText(Tail(items), rem)
              IN  <<(<<Head(items)>>) \o rest[1], rest[2]>>

\* The inner loop over one content list: <<new_content, images_to_remove>>.
RECURSIVE FilterItems(_, _)
FilterItems(items, rem) ==
    IF items = <<>> THEN <<(<<>>), rem>>
    ELSE IF Head(items).type = "image" /\ rem > 0
         THEN FilterItems(Tail(items), rem - 1)
         ELSE LET rest == FilterItems(Tail(items), rem)
              IN  <<(<<Head(items)>>) \o rest[1], rest[2]>>

\* The outer loop over the tool_result blocks, here those of one message.
RECURSIVE FilterResults(_, _)
FilterResults(rs, rem) ==
    IF rs = <<>> THEN <<(<<>>), rem>>
    ELSE LET tr == Head(rs)
             f == FilterItems(tr.content.items, rem)
             new == IF tr.content.kind = "list"
                    THEN [tr EXCEPT !.content = ListContent(f[1])]
                    ELSE tr
             rem2 == IF tr.content.kind = "list" THEN f[2] ELSE rem
             rest == FilterResults(Tail(rs), rem2)
         IN  <<(<<new>>) \o rest[1], rest[2]>>

RECURSIVE FilterMessages(_, _)
FilterMessages(msgs, rem) ==
    IF msgs = <<>> THEN <<>>
    ELSE LET m == Head(msgs)
             f == FilterResults(ToolResultBlocks(m), rem)
         IN  IF m.kind = "results"
             THEN <<[m EXCEPT !.results = f[1]]>> \o FilterMessages(Tail(msgs), f[2])
             ELSE <<m>> \o FilterMessages(Tail(msgs), rem)

\* _filter_to_n_most_recent_images: the messages after the in-place pruning.
FilterToNMostRecentImages(msgs, images_to_keep) ==
    FilterMessages(msgs, ImagesToRemove(msgs, images_to_keep))

----------------------------------------------------------------------------
(* workflow_automation.py: automate_workflow *)

VARIABLES
    images_to_keep,       \* config.images_to_keep_in_history
    screen,               \* the ComputerTool's scaling context
    messages,             \* the conversation
    pc,                   \* where the run is
    attempts,             \* failed attempts of the current model request
    content,              \* response.content
    idx,                  \* position of the for loop in response.content
    tool_result_content,  \* the tool_result blocks collected in this iteration
    result,               \* the ToolResult tool_collection.run returned last
    exc,                  \* the exception that left automate_workflow
    osQueue,              \* OS calls the running executor has still to make
    inflight,             \* OS calls started and not yet completed
    pointer,              \* the real pointer position
    nShots,               \* screen captures taken
    files,                \* ids of the screenshot files written
    clock,                \* datetime.now() when last read, in seconds
    pace,                 \* seconds that pass from one reading of the clock to the next
    received,             \* history: the responses as the model sent them
    invoked,              \* history: ids of the tool_use blocks handed to an executor
    executorRaised,       \* history: the last exception an executor raised
    before,               \* history: the messages before the last pruning
    osLog,                \* history: the OS calls the last executor call has started
    calc,                 \* the operands and the value of the function under evaluation
    failures,             \* history: what each failed attempt of the current model request raised
    recording_event,      \* CycleApp.recording_event, shared with the recording processes
    sessions,             \* the record_screen threads started, each with its queue and processes
    runs,                 \* the automate_workflow threads started
    osTrace               \* history: which run issued each OS action, in order

\* The state of one automate_workflow run and of the functions evaluated.
workflowVars == <<images_to_keep, screen, messages, pc, attempts, content, idx,
                  tool_result_content, result, exc, osQueue, inflight, pointer, nShots,
                  files, clock, pace, received, invoked, executorRaised, before, osLog,
                  calc, failures>>

\* The state of the application around the runs.
appVars == <<recording_event, sessions, runs, osTrace>>

vars == <<workflowVars, appVars>>

\* The application has started nothing.
AppIdle ==
    /\ recording_event = FALSE
    /\ sessions = <<>>
    /\ runs = <<>>
    /\ osTrace = <<>>

NoExc == [kind |-> "", at |-> ""]
NoRaise == [kind |-> "", message |-> <<>>]
NoResult == ToolResult(None, None, None, None)
NoCalc == [op |-> ""]

\* What the model may answer: the content of a response, ids left open.
Click100 == Input(Some("left_click"), None, Some(ListV(<<100, 100>>)))
Screenshot == Input(Some("screenshot"), None, None)
LeftClick == Input(Some("left_click"), None, None)
Drag == Input(Some("left_click_drag"), None, Some(ListV(<<100, 100>>)))
KeyInt == Input(Some("key"), Some(IntV(5)), None)
TextOnly == Input(None, Some(StrV(<<"a">>)), None)

Use(name, in) == ToolUse(<<>>, name, in)
Say == TextBlock(<<"Done.">>)

Responses ==
    { <<>>,
      <<Say>>,
      <<Use("computer", Click100)>>,
      <<Use("computer", Screenshot)>>,
      <<Use("computer", Drag)>>,
      <<Say, Use("computer", LeftClick)>>,
      <<Use("computer", LeftClick), Say>>,
      <<Use("computer", LeftClick), Use("computer", Screenshot)>>,
      <<Use("computer", Screenshot), Use("computer", LeftClick)>>,
      <<Use("bash", EmptyInput)>>,
      <<Use("bash", TextOnly)>>,
      <<Use("computer", EmptyInput)>>,
      <<Use("computer", TextOnly)>>,
      <<Use("computer", KeyInt)>> }

\* The ids the model service gives the tool_use blocks of its n-th response.
WithIds(r, n) ==
    [k \in 1..Len(r) |->
        IF r[k].type = "tool_use"
        THEN [r[k] EXCEPT !.id = <<"toolu_", ToString(n), "_", ToString(k)>>]
        ELSE r[k]]

Screens == {<<2560, 1440>>}

\* An iteration takes less than a second, or a second.
Paces == {0, 1}

Init ==
    /\ images_to_keep \in 0..MaxKeep
    /\ \E wh \in Screens : screen = NewScreen(wh[1], wh[2])
    /\ messages = InitialMessages
    /\ pc = "prune"
    /\ attempts = 0
    /\ content = <<>>
    /\ idx = 1
    /\ tool_result_content = <<>>
    /\ result = NoResult
    /\ exc = NoExc
    /\ osQueue = <<>>
    /\ inflight = <<>>
    /\ pointer = <<0, 0>>
    /\ nShots = 0
    /\ files = {}
    /\ clock = 0
    /\ pace \in Paces
    /\ received = <<>>
    /\ invoked = <<>>
    /\ executorRaised = NoRaise
    /\ before = <<>>
    /\ osLog = <<>>
    /\ failures = <<>>
    /\ calc = NoCalc
    /\ AppIdle

\* Lines 241-244: prune the history at the top of the loop.
Prune ==
    /\ pc = "prune"
    /\ messages' = FilterToNMostRecentImages(messages, images_to_keep)
    /\ before' = messages
    /\ pc' = "call"
    /\ UNCHANGED <<images_to_keep, screen, attempts, content, idx,
                   tool_result_content, result, exc, osQueue, inflight, pointer, nShots,
                   files, clock, pace, received, invoked, executorRaised,
                   osLog, calc, failures>>
    /\ UNCHANGED appVars

\* Mutant of RetryStops: one attempt more is made before giving up.
RetryStopsLate(made) == made >= MaxAttempts + 1

\* stop=tenacity.stop_after_attempt(3): no attempt follows the made-th one.
RetryStops(made) == made >= MaxAttempts

\* What client.beta.messages...create may raise: a failure that can pass (the
\* service is not reached) and one that cannot (the request is rejected).
FailureKinds == {"APIConnectionError", "BadRequestError"}

\* The decorator has no retry= argument: tenacity's default retries after any
\* exception, whatever its class.
Retried(kind) == TRUE

\* _create_with_retries: an attempt of the model request fails. The retry
\* decorator names no exception class, so whatever the attempt raised it is
\* tried again until RetryStops; reraise=True then raises the last failure.
ModelCallFails ==
    /\ pc = "call"
    /\ Len(received) < MaxCalls
    /\ attempts' = attempts + 1
    /\ \E kind \in FailureKinds :
          /\ failures' = Append(failures, kind)
          /\ IF RetryStops(attempts + 1) \/ ~Retried(kind)
             THEN pc' = "raised" /\ exc' = [kind |-> kind, at |-> "model"]
             ELSE UNCHANGED <<pc, exc>>
    /\ UNCHANGED <<images_to_keep, screen, messages, content, idx,
                   tool_result_content, result, osQueue, inflight, pointer,
                   nShots, files, clock, pace, received, invoked, executorRaised, before,
                   osLog, calc>>
    /\ UNCHANGED appVars

\* _create_with_retries: an attempt succeeds; raw_response.parse().
ModelCallReturns ==
    /\ pc = "call"
    /\ Len(received) < MaxCalls
    /\ \E r \in Responses :
          /\ content' = WithIds(r, Len(received) + 1)
          /\ received' = Append(received, content')
    /\ attempts' = 0
    /\ failures' = <<>>
    /\ pc' = "respond"
    /\ UNCHANGED <<images_to_keep, screen, messages, idx, tool_result_content, result,
                   exc, osQueue, inflight, pointer, nShots, files, clock, pace,
                   invoked, executorRaised, before,
                   osLog, calc>>
    /\ UNCHANGED appVars

\* Lines 266-271: the test that decides the forced screenshot. Reading .input
\* of the last block raises AttributeError when that block is a text block,
\* which has no such attribute.
LastInputRaises(c) == c # <<>> /\ c[Len(c)].type # "tool_use"

\* Mutant of NeedsScreenshot: any block of the response is looked at.
NeedsScreenshotAnyBlock(c) ==
    \E k \in 1..Len(c) :
        /\ InputTruthy(c[k].input)
        /\ c[k].input.action # Some("screenshot")

NeedsScreenshot(c) ==
    /\ c # <<>>
    /\ InputTruthy(c[Len(c)].input)
    /\ c[Len(c)].input.action # Some("screenshot")

\* Lines 272-279: response.content.append(BetaToolUseBlock(...)).
Augmented(c, now) ==
    IF NeedsScreenshot(c)
    THEN Append(c, ToolUse(<<"screenshot_", ToString(now)>>, "computer", Screenshot))
    ELSE c

\* datetime.now() read again.
Now == clock + pace

\* Lines 265-287: inspect the response, add the screenshot, store the
\* assistant message and enter the for loop.
Respond ==
    /\ pc = "respond"
    /\ IF LastInputRaises(content)
       THEN /\ pc' = "raised"
            /\ exc' = [kind |-> "AttributeError", at |-> "respond"]
            /\ UNCHANGED <<messages, content, idx, tool_result_content, clock,
                           executorRaised>>
       ELSE /\ clock' = IF NeedsScreenshot(content) THEN Now ELSE clock
            /\ content' = Augmented(content, Now)
            /\ messages' = Append(messages, BlocksMessage("assistant", content'))
            /\ idx' = 1
            /\ tool_result_content' = <<>>
            /\ executorRaised' = NoRaise
            /\ pc' = "dispatch"
            /\ UNCHANGED exc
    /\ UNCHANGED <<images_to_keep, screen, attempts, result, osQueue, inflight,
                   pointer, nShots, files, pace, received, invoked, before,
                   osLog, calc, failures>>
    /\ UNCHANGED appVars

\* Line 290-291: a block that is no tool_use is logged and passed over.
SkipBlock ==
    /\ pc = "dispatch"
    /\ idx <= Len(content)
    /\ content[idx].type # "tool_use"
    /\ idx' = idx + 1
    /\ UNCHANGED <<images_to_keep, screen, messages, pc, attempts, content,
                   tool_result_content, result, exc, osQueue, inflight, pointer, nShots,
                   files, clock, pace, received, invoked, executorRaised, before,
                   osLog, calc, failures>>
    /\ UNCHANGED appVars

\* Mutant of Collect: a failed tool_use is handed to the executor again.
CollectRetrying(res, saved) ==
    IF Truthy(res.error)
    THEN /\ result' = res
         /\ pc' = "dispatch"
         /\ UNCHANGED <<tool_result_content, idx, files, exc>>
    ELSE
    /\ result' = res
    /\ tool_result_content' =
          Append(tool_result_content, MakeApiToolResult(res, content[idx].id))
    /\ IF Truthy(res.base64_image)
       THEN IF saved
            THEN /\ files' = files \cup {content[idx].id}
                 /\ idx' = idx + 1
                 /\ pc' = "dispatch"
                 /\ UNCHANGED exc
            ELSE /\ pc' = "raised"
                 /\ exc' = [kind |-> "OSError", at |-> "persist"]
                 /\ UNCHANGED <<files, idx>>
       ELSE /\ saved
            /\ idx' = idx + 1
            /\ pc' = "dispatch"
            /\ UNCHANGED <<files, exc>>

\* Lines 296-303: the tool_result is collected, then tool_output_callback
\* writes the screenshot file; a failure of the write (saved = FALSE) is an
\* OSError that nothing catches.
Collect(res, saved) ==
    /\ result' = res
    /\ tool_result_content' =
          Append(tool_result_content, MakeApiToolResult(res, content[idx].id))
    /\ IF Truthy(res.base64_image)
       THEN IF saved
            THEN /\ files' = files \cup {content[idx].id}
                 /\ idx' = idx + 1
                 /\ pc' = "dispatch"
                 /\ UNCHANGED exc
            ELSE /\ pc' = "raised"
                 /\ exc' = [kind |-> "OSError", at |-> "persist"]
                 /\ UNCHANGED <<files, idx>>
       ELSE /\ saved
            /\ idx' = idx + 1
            /\ pc' = "dispatch"
            /\ UNCHANGED <<files, exc>>

\* Mutant of Awaited: the call is started and not awaited.
NotAwaited(running) == TRUE

\* await: the coroutine goes on only when what it awaits has completed.
Awaited(running) == running = <<>>

\* Lines 291-295: tool_collection.run for the block at idx, up to the first
\* OS call of the executor.
StartTool ==
    /\ pc = "dispatch"
    /\ idx <= Len(content)
    /\ content[idx].type = "tool_use"
    /\ Awaited(inflight)
    /\ LET r == Run(screen, content[idx].name, content[idx].input)
           o == ComputerCall(screen, content[idx].input)
       IN  /\ invoked' = IF r.invoked THEN Append(invoked, content[idx].id) ELSE invoked
           /\ executorRaised' = IF r.invoked /\ o.kind # "ok"
                                 THEN [kind |-> o.kind, message |-> o.message]
                                 ELSE NoRaise
           /\ CASE r.kind = "return" ->
                     /\ Collect(r.result, TRUE)
                     /\ UNCHANGED osQueue
                [] r.kind = "raise" ->
                     /\ pc' = "raised"
                     /\ exc' = [kind |-> r.exc, at |-> "executor"]
                     /\ UNCHANGED <<osQueue, idx, tool_result_content, result, files>>
                [] OTHER ->
                     /\ osQueue' = r.os
                     /\ pc' = "os"
                     /\ UNCHANGED <<exc, idx, tool_result_content, result, files>>
    /\ osLog' = <<>>
    /\ UNCHANGED <<images_to_keep, screen, messages, attempts, content, inflight,
                   pointer, nShots, clock, pace, received, before, calc, failures>>
    /\ UNCHANGED appVars

\* asyncio.to_thread(pyautogui...): the executor starts its next OS call.
OsBegin ==
    /\ pc = "os"
    /\ osQueue # <<>>
    /\ Awaited(inflight)
    /\ inflight' = Append(inflight, Head(osQueue))
    /\ osQueue' = Tail(osQueue)
    /\ osLog' = Append(osLog, Head(osQueue).fn)
    /\ UNCHANGED <<images_to_keep, screen, messages, pc, attempts, content, idx,
                   tool_result_content, result, exc, pointer, nShots, files, clock, pace,
                   received, invoked, executorRaised, before, calc, failures>>
    /\ UNCHANGED appVars

\* The started OS call completes.
OsEnd ==
    /\ inflight # <<>>
    /\ pc \notin {"raised", "done"}
    /\ LET call == Head(inflight)
       IN  /\ pointer' = IF call.fn = "moveTo" THEN <<call.x, call.y>> ELSE pointer
           /\ nShots' = IF call.fn = "screenshot" THEN nShots + 1 ELSE nShots
    /\ inflight' = Tail(inflight)
    /\ UNCHANGED <<images_to_keep, screen, messages, pc, attempts, content, idx,
                   tool_result_content, result, exc, osQueue, files, clock, pace, received,
                   invoked, executorRaised, before,
                   osLog, calc, failures>>
    /\ UNCHANGED appVars

\* The started OS call raises (pyautogui's fail-safe, a display error): no
\* ToolError, so run lets it through.
OsFails ==
    /\ inflight # <<>>
    /\ pc = "os"
    /\ inflight' = Tail(inflight)
    /\ executorRaised' = [kind |-> "OSError", message |-> <<>>]
    /\ IF Catches("OSError")
       THEN /\ osQueue' = <<>>
            /\ result' = ToolFailure(<<>>)
            /\ tool_result_content' =
                  Append(tool_result_content,
                         MakeApiToolResult(ToolFailure(<<>>), content[idx].id))
            /\ idx' = idx + 1
            /\ pc' = "dispatch"
            /\ UNCHANGED exc
       ELSE /\ pc' = "raised"
            /\ exc' = [kind |-> "OSError", at |-> "executor"]
            /\ UNCHANGED <<osQueue, tool_result_content, result, idx>>
    /\ UNCHANGED <<images_to_keep, screen, messages, attempts, content, pointer,
                   nShots, files, clock, pace, received, invoked, before,
                   osLog, calc, failures>>
    /\ UNCHANGED appVars

\* The executor returns its ToolResult; lines 296-303 collect it.
ToolReturns ==
    /\ pc = "os"
    /\ osQueue = <<>>
    /\ Awaited(inflight)
    /\ \E saved \in BOOLEAN :
          Collect(ComputerResult(screen, content[idx].input, pointer, nShots), saved)
    /\ UNCHANGED <<images_to_keep, screen, messages, attempts, content, osQueue,
                   inflight, pointer, nShots, clock, pace, received, invoked,
                   executorRaised, before,
                   osLog, calc, failures>>
    /\ UNCHANGED appVars

\* Mutant of Terminate: the run ends after the for loop whatever was collected.
TerminateAlways ==
    /\ pc = "dispatch"
    /\ idx > Len(content)
    /\ pc' = "done"
    /\ UNCHANGED <<images_to_keep, screen, messages, attempts, content, idx,
                   tool_result_content, result, exc, osQueue, inflight, pointer, nShots,
                   files, clock, pace, received, invoked, executorRaised, before,
                   osLog, calc, failures>>
    /\ UNCHANGED appVars

\* Lines 305-307: no tool_result was collected, the run is over.
Terminate ==
    /\ pc = "dispatch"
    /\ idx > Len(content)
    /\ tool_result_content = <<>>
    /\ pc' = "done"
    /\ UNCHANGED <<images_to_keep, screen, messages, attempts, content, idx,
                   tool_result_content, result, exc, osQueue, inflight, pointer, nShots,
                   files, clock, pace, received, invoked, executorRaised, before,
                   osLog, calc, failures>>
    /\ UNCHANGED appVars

\* Mutant of Continue: the tool results go back under the assistant's role.
ContinueAsAssistant ==
    /\ pc = "dispatch"
    /\ idx > Len(content)
    /\ tool_result_content # <<>>
    /\ messages' = Append(messages, ResultsMessage("assistant", tool_result_content))
    /\ pc' = "prune"
    /\ UNCHANGED <<images_to_keep, screen, attempts, content, idx,
                   tool_result_content, result, exc, osQueue, inflight, pointer, nShots,
                   files, clock, pace, received, invoked, executorRaised, before,
                   osLog, calc, failures>>
    /\ UNCHANGED appVars

\* Lines 309-314: the results go back to the model as one user message.
Continue ==
    /\ pc = "dispatch"
    /\ idx > Len(content)
    /\ tool_result_content # <<>>
    /\ messages' = Append(messages, ResultsMessage("user", tool_result_content))
    /\ pc' = "prune"
    /\ UNCHANGED <<images_to_keep, screen, attempts, content, idx,
                   tool_result_content, result, exc, osQueue, inflight, pointer, nShots,
                   files, clock, pace, received, invoked, executorRaised, before,
                   osLog, calc, failures>>
    /\ UNCHANGED appVars

Next ==
    \/ Prune
    \/ ModelCallFails
    \/ ModelCallReturns
    \/ Respond
    \/ SkipBlock
    \/ StartTool
    \/ OsBegin
    \/ OsEnd
    \/ OsFails
    \/ ToolReturns
    \/ Terminate
    \/ Continue

Spec == Init /\ [][Next]_vars

----------------------------------------------------------------------------
(* The history pruner on its own: histories of every shape, then one pruning *)

\* The content of one tool_result: <<"e">> is an error text, any other shape a
\* list of text ("t") and image ("i") blocks.
TurnShapes ==
    { << <<"i">> >>,
      << <<"t", "i">> >>,
      << <<"e">> >>,
      << <<"i">>, <<"i">> >>,
      << <<"i", "i">> >>,
      << <<"t">>, <<"i">> >> }

RECURSIVE CountOf(_, _)
CountOf(shape, x) ==
    IF shape = <<>> THEN 0
    ELSE (IF Head(shape) = x THEN 1 ELSE 0) + CountOf(Tail(shape), x)

\* The items of a list content; the images are numbered from n + 1 on.
RECURSIVE BuildItems(_, _)
BuildItems(shape, n) ==
    IF shape = <<>> THEN <<>>
    ELSE IF Head(shape) = "i"
         THEN <<ImageItem(<<"png", ToString(n + 1)>>)>> \o BuildItems(Tail(shape), n + 1)
         ELSE <<TextItem(<<"ok">>)>> \o BuildItems(Tail(shape), n)

TurnId(turn, k) == <<"toolu_", ToString(turn), "_", ToString(k)>>

RECURSIVE BuildResults(_, _, _, _)
BuildResults(shapes, turn, k, n) ==
    IF shapes = <<>> THEN <<>>
    ELSE LET shape == Head(shapes)
             tr == IF shape = <<"e">>
                   THEN MakeApiToolResult(ToolFailure(<<"failed">>), TurnId(turn, k))
                   ELSE [type |-> "tool_result",
                         content |-> ListContent(BuildItems(shape, n)),
                         tool_use_id |-> TurnId(turn, k),
                         is_error |-> FALSE]
         IN  <<tr>> \o BuildResults(Tail(shapes), turn, k + 1, n + CountOf(shape, "i"))

BuildUses(shapes, turn) ==
    [k \in 1..Len(shapes) |-> ToolUse(TurnId(turn, k), "computer", Screenshot)]

InitPrune ==
    /\ images_to_keep \in 0..MaxKeep
    /\ \E wh \in Screens : screen = NewScreen(wh[1], wh[2])
    /\ messages = InitialMessages
    /\ pc = "build"
    /\ attempts = 0
    /\ content = <<>>
    /\ idx = 1
    /\ tool_result_content = <<>>
    /\ result = NoResult
    /\ exc = NoExc
    /\ osQueue = <<>>
    /\ inflight = <<>>
    /\ pointer = <<0, 0>>
    /\ nShots = 0
    /\ files = {}
    /\ clock = 0
    /\ pace = 1
    /\ received = <<>>
    /\ invoked = <<>>
    /\ executorRaised = NoRaise
    /\ before = <<>>
    /\ osLog = <<>>
    /\ failures = <<>>
    /\ calc = NoCalc
    /\ AppIdle

\* One more assistant message and its tool_result message.
HistoryTurn ==
    /\ pc = "build"
    /\ Len(messages) < 1 + 2 * MaxHistory
    /\ \E shapes \in TurnShapes :
          LET turn == (Len(messages) + 1) \div 2
          IN  /\ messages' = messages \o
                    <<BlocksMessage("assistant", BuildUses(shapes, turn)),
                      ResultsMessage("user", BuildResults(shapes, turn, 1, nShots))>>
              /\ nShots' = nShots + TotalImages(<<ResultsMessage("user",
                                        BuildResults(shapes, turn, 1, nShots))>>)
    /\ UNCHANGED <<images_to_keep, screen, pc, attempts, content, idx,
                   tool_result_content, result, exc, osQueue, inflight, pointer,
                   files, clock, pace, received, invoked, executorRaised, before,
                   osLog, calc, failures>>
    /\ UNCHANGED appVars

\* _filter_to_n_most_recent_images(messages, images_to_keep)
HistoryFilter ==
    /\ pc = "build"
    /\ messages' = FilterToNMostRecentImages(messages, images_to_keep)
    /\ before' = messages
    /\ pc' = "filtered"
    /\ UNCHANGED <<images_to_keep, screen, attempts, content, idx,
                   tool_result_content, result, exc, osQueue, inflight, pointer,
                   nShots, files, clock, pace, received, invoked, executorRaised,
                   osLog, calc, failures>>
    /\ UNCHANGED appVars

NextPrune ==
    \/ HistoryTurn
    \/ HistoryFilter

SpecPrune == InitPrune /\ [][NextPrune]_vars

----------------------------------------------------------------------------
(* The computer tool on its own: one tool_use of every shape of input *)

ToolScreens == {<<2560, 1440>>, <<1920, 1080>>, <<1280, 800>>}

ToolActions ==
    {None} \cup {Some(a) : a \in MoveActions \cup TextActions \cup PlainActions
                                   \cup {"middle_click", "scroll"}}

ToolTexts == {None, Some(StrV(<<"a">>)), Some(StrV(<<>>)), Some(IntV(5))}

ToolCoordinates ==
    {None} \cup
    {Some(v) : v \in {ListV(<<0, 0>>), ListV(<<100, 100>>), ListV(<<1279, 719>>),
                      ListV(<<1280, 100>>), ListV(<<100, 720>>), ListV(<<5000, 100>>),
                      ListV(<<0 - 1, 5>>), ListV(<<5, 0 - 1>>), ListV(<<1>>),
                      ListV(<<1, 2, 3>>), ListV(<<>>), StrListV(<<"1", "2">>),
                      StrV(<<"1,2">>), IntV(5)}}

\* The run has stored a response of one computer tool_use (and the screenshot
\* the driver added to it) and stands at the head of the for loop.
InitTool ==
    /\ images_to_keep = 1
    /\ \E wh \in ToolScreens : screen = NewScreen(wh[1], wh[2])
    /\ \E a \in ToolActions, t \in ToolTexts, c \in ToolCoordinates :
          LET use == ToolUse(<<"toolu_1_1">>, "computer", Input(a, t, c))
          IN  /\ received = << <<use>> >>
              /\ content = Augmented(<<use>>, 0)
    /\ messages = Append(InitialMessages, BlocksMessage("assistant", content))
    /\ pc = "dispatch"
    /\ attempts = 0
    /\ idx = 1
    /\ tool_result_content = <<>>
    /\ result = NoResult
    /\ exc = NoExc
    /\ osQueue = <<>>
    /\ inflight = <<>>
    /\ pointer = <<0, 0>>
    /\ nShots = 0
    /\ files = {}
    /\ clock = 0
    /\ pace = 0
    /\ invoked = <<>>
    /\ executorRaised = NoRaise
    /\ before = InitialMessages
    /\ osLog = <<>>
    /\ failures = <<>>
    /\ calc = NoCalc
    /\ AppIdle

NextTool ==
    \/ StartTool
    \/ OsBegin
    \/ OsEnd
    \/ OsFails
    \/ ToolReturns

SpecTool == InitTool /\ [][NextTool]_vars

----------------------------------------------------------------------------
(* The pure functions on their own: operands of every shape, then the function *)

ScaleScreens == {<<1280, 800>>, <<1281, 801>>, <<1366, 768>>, <<1432, 537>>,
                 <<1440, 900>>, <<1920, 1080>>, <<2560, 1440>>, <<3024, 1964>>,
                 <<5120, 2880>>}

\* In-bounds API coordinates of an axis: the MaxCoord + 1 nearest to each
\* edge, and a stride across the middle on which the halfway values lie.
AxisValues(size) ==
    {v \in (0..MaxCoord) \cup ((size - 1 - MaxCoord)..(size - 1))
            \cup {40 * k : k \in 0..MaxCoord} : v >= 0 /\ v < size}

\* The values of a ToolResult field: None, the empty str, a str.
FieldValues(ch) == {None, Some(<<>>), Some(<<ch>>)}

ResultValues(ch) ==
    {ToolResult(o, e, b, y) : o \in FieldValues(ch), e \in FieldValues(ch),
                              b \in FieldValues(ch), y \in FieldValues(ch)}

KeyTokens ==
    { <<"c", "t", "r", "l">>,
      <<"C", "o", "n", "t", "r", "o", "l">>,
      <<"c", "m", "d">>,
      <<"S", "u", "p", "e", "r">>,
      <<"o", "p", "t", "i", "o", "n">>,
      <<"r", "e", "t", "u", "r", "n">>,
      <<"e", "s", "c", "a", "p", "e">>,
      <<"s", "p", "a", "c", "e", "b", "a", "r">>,
      <<"c">>,
      <<"+">>,
      <<" ">>,
      <<"s", "u">>,
      <<"p", "e", "r">> }

KeyExamples ==
    { <<"c", "t", "r", "l", "+", "s", "h", "i", "f", "t", "+", "e", "s", "c">>,
      <<"c", "m", "d", "+", "c">>,
      <<" ", "C", "o", "n", "t", "r", "o", "l", " ", "+", " ", "R", "e", "t", "u", "r", "n", " ">>,
      <<"s", "u", "p", "e", "r", "+", "s", "h", "i", "f", "t", "+", "T", "a", "b">>,
      <<"c", "t", "r", "l", "+", "+">>,
      <<"O", "p", "t", "i", "o", "n", "+", "S", "P", "A", "C", "E", "B", "A", "R", "+", "E", "s", "c", "a", "p", "e">>,
      <<" ", "C", "o", "n", "t", "r", "o", "l", " ", "+", " ", "R", "e", "t", "u", "r", "n", " ", "+", "c", "m", "d">> }

\* The texts made of at most n tokens.
RECURSIVE TextsOf(_)
TextsOf(n) ==
    IF n = 0 THEN {<<>>}
    ELSE LET shorter == TextsOf(n - 1)
         IN  shorter \cup {t \o k : t \in shorter, k \in KeyTokens}

\* "+".join(keys)
RECURSIVE Join(_)
Join(keys) ==
    IF Len(keys) = 1 THEN keys[1]
    ELSE keys[1] \o <<"+">> \o Join(Tail(keys))

\* Executors a collection may be built from: two that declare the name
\* "computer" and one that declares another name.
Executors ==
    {[name |-> "computer", instance |-> 1],
     [name |-> "computer", instance |-> 2],
     [name |-> "editor", instance |-> 3]}

ToolLists ==
    {<<>>} \cup {<<a>> : a \in Executors}
           \cup {ab \in Executors \X Executors : ab[1] # ab[2]}

RunNames == {"computer", "editor", "shell"}

\* ToolCollection.__init__: the dict comprehension keeps, for each name, the
\* last tool that declares it; nothing is checked and nothing raised.
ToolCollectionInit(tools) ==
    LET names == {tools[i].name : i \in DOMAIN tools}
        last(n) == CHOOSE i \in DOMAIN tools :
                      /\ tools[i].name = n
                      /\ \A j \in DOMAIN tools : tools[j].name = n => j <= i
    IN  [rejected |-> FALSE,
         tools |-> tools,
         tool_map |-> [n \in names |-> tools[last(n)]]]

\* ToolCollection.to_params: one tool spec per tool, in the order given.
ToParams(coll) == [i \in DOMAIN coll.tools |-> coll.tools[i].name]

\* self.tool_map.get(name)
ToolMapGet(coll, name) ==
    IF name \in DOMAIN coll.tool_map THEN Some(coll.tool_map[name]) ELSE None

InitPure ==
    /\ images_to_keep = 1
    /\ messages = InitialMessages
    /\ pc = "pure"
    /\ attempts = 0
    /\ content = <<>>
    /\ idx = 1
    /\ tool_result_content = <<>>
    /\ result = NoResult
    /\ exc = NoExc
    /\ osQueue = <<>>
    /\ inflight = <<>>
    /\ pointer = <<0, 0>>
    /\ nShots = 0
    /\ files = {}
    /\ clock = 0
    /\ pace = 0
    /\ received = <<>>
    /\ invoked = <<>>
    /\ executorRaised = NoRaise
    /\ before = <<>>
    /\ osLog = <<>>
    /\ failures = <<>>
    /\ \/ /\ \E wh \in ScaleScreens : screen = NewScreen(wh[1], wh[2])
          /\ \E x \in AxisValues(screen.target_width),
                y \in AxisValues(screen.target_height) :
                calc = [op |-> "scale", x |-> x, y |-> y, real |-> <<>>, back |-> <<>>]
       \/ /\ screen = NewScreen(1280, 800)
          /\ \E a \in ResultValues("a"), b \in ResultValues("b") :
                calc = [op |-> "result", a |-> a, b |-> b, truth |-> <<>>, merged |-> <<>>]
       \/ /\ screen = NewScreen(1280, 800)
          /\ \E t \in TextsOf(MaxTokens) \cup KeyExamples :
                calc = [op |-> "keys", text |-> t, keys |-> <<>>, again |-> <<>>]
       \/ /\ screen = NewScreen(1280, 800)
          /\ \E a \in ResultValues("a"), id \in {<<"toolu_1_1">>, <<"screenshot_", "0">>} :
                calc = [op |-> "api", a |-> a, id |-> id, block |-> <<>>]
       \/ /\ screen = NewScreen(1280, 800)
          /\ \E tools \in ToolLists :
                calc = [op |-> "collection", tools |-> tools, built |-> <<>>,
                        routed |-> <<>>]
    /\ AppIdle

\* _scale_coordinates(ScalingSource.API, x, y)
ScaleToScreen ==
    /\ calc.op = "scale"
    /\ calc.real = <<>>
    /\ \E xy \in ScaleOutcomes(screen, "api", calc.x, calc.y) :
          calc' = [calc EXCEPT !.real = xy]
    /\ UNCHANGED <<images_to_keep, screen, messages, pc, attempts, content, idx,
                   tool_result_content, result, exc, osQueue, inflight, pointer, nShots,
                   files, clock, pace, received, invoked, executorRaised, before, osLog, failures>>
    /\ UNCHANGED appVars

\* _scale_coordinates(ScalingSource.COMPUTER, x, y) of the real coordinate
ScaleToApi ==
    /\ calc.op = "scale"
    /\ calc.real # <<>>
    /\ calc.back = <<>>
    /\ \E xy \in ScaleOutcomes(screen, "computer", calc.real[1], calc.real[2]) :
          calc' = [calc EXCEPT !.back = xy]
    /\ UNCHANGED <<images_to_keep, screen, messages, pc, attempts, content, idx,
                   tool_result_content, result, exc, osQueue, inflight, pointer, nShots,
                   files, clock, pace, received, invoked, executorRaised, before, osLog, failures>>
    /\ UNCHANGED appVars

\* bool(a)
ResultBool ==
    /\ calc.op = "result"
    /\ calc.truth = <<>>
    /\ calc' = [calc EXCEPT !.truth = <<ToolResultBool(calc.a)>>]
    /\ UNCHANGED <<images_to_keep, screen, messages, pc, attempts, content, idx,
                   tool_result_content, result, exc, osQueue, inflight, pointer, nShots,
                   files, clock, pace, received, invoked, executorRaised, before, osLog, failures>>
    /\ UNCHANGED appVars

\* a + b: the dataclass is frozen, __add__ assigns to neither operand.
ResultAdd ==
    /\ calc.op = "result"
    /\ calc.merged = <<>>
    /\ calc' = [calc EXCEPT !.merged = <<ToolResultAdd(calc.a, calc.b)>>]
    /\ UNCHANGED <<images_to_keep, screen, messages, pc, attempts, content, idx,
                   tool_result_content, result, exc, osQueue, inflight, pointer, nShots,
                   files, clock, pace, received, invoked, executorRaised, before, osLog, failures>>
    /\ UNCHANGED appVars

\* The key_sequence of the text.
KeyNormalize ==
    /\ calc.op = "keys"
    /\ calc.keys = <<>>
    /\ calc' = [calc EXCEPT !.keys = KeySequence(calc.text)]
    /\ UNCHANGED <<images_to_keep, screen, messages, pc, attempts, content, idx,
                   tool_result_content, result, exc, osQueue, inflight, pointer, nShots,
                   files, clock, pace, received, invoked, executorRaised, before, osLog, failures>>
    /\ UNCHANGED appVars

\* The key_sequence of a key_sequence, handed back as a text.
KeyNormalizeAgain ==
    /\ calc.op = "keys"
    /\ calc.keys # <<>>
    /\ calc.again = <<>>
    /\ calc' = [calc EXCEPT !.again = KeySequence(Join(calc.keys))]
    /\ UNCHANGED <<images_to_keep, screen, messages, pc, attempts, content, idx,
                   tool_result_content, result, exc, osQueue, inflight, pointer, nShots,
                   files, clock, pace, received, invoked, executorRaised, before, osLog, failures>>
    /\ UNCHANGED appVars

\* _make_api_tool_result(result, tool_use_id)
ApiResult ==
    /\ calc.op = "api"
    /\ calc.block = <<>>
    /\ calc' = [calc EXCEPT !.block = <<MakeApiToolResult(calc.a, calc.id)>>]
    /\ UNCHANGED <<images_to_keep, screen, messages, pc, attempts, content, idx,
                   tool_result_content, result, exc, osQueue, inflight, pointer, nShots,
                   files, clock, pace, received, invoked, executorRaised, before, osLog,
                   failures>>
    /\ UNCHANGED appVars

\* ToolCollection(*tools)
CollectionInit ==
    /\ calc.op = "collection"
    /\ calc.built = <<>>
    /\ calc' = [calc EXCEPT !.built = <<ToolCollectionInit(calc.tools)>>]
    /\ UNCHANGED <<images_to_keep, screen, messages, pc, attempts, content, idx,
                   tool_result_content, result, exc, osQueue, inflight, pointer, nShots,
                   files, clock, pace, received, invoked, executorRaised, before, osLog,
                   failures>>
    /\ UNCHANGED appVars

\* ToolCollection.run(name=...) as far as the lookup: the tool it reaches.
\* The method assigns nothing to the collection.
CollectionRun ==
    /\ calc.op = "collection"
    /\ calc.built # <<>>
    /\ calc.routed = <<>>
    /\ \E name \in RunNames :
          calc' = [calc EXCEPT !.routed =
                      <<[name |-> name, tool |-> ToolMapGet(calc.built[1], name)]>>]
    /\ UNCHANGED <<images_to_keep, screen, messages, pc, attempts, content, idx,
                   tool_result_content, result, exc, osQueue, inflight, pointer, nShots,
                   files, clock, pace, received, invoked, executorRaised, before, osLog,
                   failures>>
    /\ UNCHANGED appVars

NextPure ==
    \/ ScaleToScreen
    \/ ScaleToApi
    \/ ResultBool
    \/ ResultAdd
    \/ KeyNormalize
    \/ KeyNormalizeAgain
    \/ ApiResult
    \/ CollectionInit
    \/ CollectionRun

SpecPure == InitPure /\ [][NextPure]_vars

----------------------------------------------------------------------------
(* screen_recording.py and app.py: the recording *)

\* No run is under way and no function is under evaluation.
WorkflowIdle ==
    /\ images_to_keep = 1
    /\ screen = NewScreen(1280, 800)
    /\ messages = <<>>
    /\ pc = "idle"
    /\ attempts = 0
    /\ content = <<>>
    /\ idx = 1
    /\ tool_result_content = <<>>
    /\ result = NoResult
    /\ exc = NoExc
    /\ osQueue = <<>>
    /\ inflight = <<>>
    /\ pointer = <<0, 0>>
    /\ nShots = 0
    /\ files = {}
    /\ clock = 0
    /\ pace = 0
    /\ received = <<>>
    /\ invoked = <<>>
    /\ executorRaised = NoRaise
    /\ before = <<>>
    /\ osLog = <<>>
    /\ failures = <<>>
    /\ calc = NoCalc

\* record_screen as its thread starts: an empty Queue, capture_screen about
\* to test the event, encode_video about to get the first frame, the thread
\* joining both. stopped and resumed are history: the session was told to
\* stop, and one of its processes found the event set after that.
NewSession ==
    [queue |-> 0, capture |-> "while", encode |-> "first_frame", thread |-> "join",
     stopped |-> FALSE, resumed |-> FALSE]

Stopped(ss) == [s \in DOMAIN ss |-> [ss[s] EXCEPT !.stopped = TRUE]]

InitRec ==
    /\ recording_event = FALSE
    /\ sessions = <<>>
    /\ runs = <<>>
    /\ osTrace = <<>>
    /\ WorkflowIdle

\* CycleApp._toggle_recording with _start_recording and _stop_recording.
ToggleRecording ==
    /\ IF ~recording_event
       THEN /\ Len(sessions) < MaxSessions
            /\ recording_event' = TRUE
            /\ sessions' = Append(sessions, NewSession)
       ELSE /\ recording_event' = FALSE
            /\ sessions' = Stopped(sessions)
    /\ UNCHANGED <<runs, osTrace>>
    /\ UNCHANGED workflowVars

\* capture_screen, while recording.is_set(): the test of the loop. The queue
\* is unbounded; a capture that finds MaxFrames frames waiting is held back.
CaptureWhile(s) ==
    /\ sessions[s].capture = "while"
    /\ recording_event => sessions[s].queue < MaxFrames
    /\ sessions' = [sessions EXCEPT
                       ![s].capture = IF recording_event THEN "put" ELSE "return",
                       ![s].resumed = @ \/ (recording_event /\ sessions[s].stopped)]
    /\ UNCHANGED <<recording_event, runs, osTrace>>
    /\ UNCHANGED workflowVars

\* capture_screen: grab the frame, queue.put(frame), sleep.
CapturePut(s) ==
    /\ sessions[s].capture = "put"
    /\ sessions' = [sessions EXCEPT ![s].capture = "while", ![s].queue = @ + 1]
    /\ UNCHANGED <<recording_event, runs, osTrace>>
    /\ UNCHANGED workflowVars

\* queue.get() blocks while the queue is empty.
QueueGetReturns(q) == q > 0

\* encode_video: first_frame = queue.get() and the opening of the writer.
EncodeFirstFrame(s) ==
    /\ sessions[s].encode = "first_frame"
    /\ QueueGetReturns(sessions[s].queue)
    /\ sessions' = [sessions EXCEPT ![s].encode = "while",
                                    ![s].queue = Max(0, @ - 1)]
    /\ UNCHANGED <<recording_event, runs, osTrace>>
    /\ UNCHANGED workflowVars

\* encode_video, while recording.is_set(): the test of the loop; out.release()
\* and the return when the event is clear.
EncodeWhile(s) ==
    /\ sessions[s].encode = "while"
    /\ sessions' = [sessions EXCEPT
                       ![s].encode = IF recording_event THEN "get" ELSE "return",
                       ![s].resumed = @ \/ (recording_event /\ sessions[s].stopped)]
    /\ UNCHANGED <<recording_event, runs, osTrace>>
    /\ UNCHANGED workflowVars

\* encode_video: frame = queue.get(), convert, out.write(frame).
EncodeGet(s) ==
    /\ sessions[s].encode = "get"
    /\ QueueGetReturns(sessions[s].queue)
    /\ sessions' = [sessions EXCEPT ![s].encode = "while",
                                    ![s].queue = Max(0, @ - 1)]
    /\ UNCHANGED <<recording_event, runs, osTrace>>
    /\ UNCHANGED workflowVars

\* record_screen: capture_process.join(), encode_process.join(), return.
RecordScreenReturns(s) ==
    /\ sessions[s].thread = "join"
    /\ sessions[s].capture = "return"
    /\ sessions[s].encode = "return"
    /\ sessions' = [sessions EXCEPT ![s].thread = "returned"]
    /\ UNCHANGED <<recording_event, runs, osTrace>>
    /\ UNCHANGED workflowVars

CaptureTests == \E s \in DOMAIN sessions : CaptureWhile(s)
CapturePuts == \E s \in DOMAIN sessions : CapturePut(s)
EncodeFirst == \E s \in DOMAIN sessions : EncodeFirstFrame(s)
EncodeTests == \E s \in DOMAIN sessions : EncodeWhile(s)
EncodeGets == \E s \in DOMAIN sessions : EncodeGet(s)
RecordScreenEnds == \E s \in DOMAIN sessions : RecordScreenReturns(s)

NextRec ==
    \/ ToggleRecording
    \/ CaptureTests
    \/ CapturePuts
    \/ EncodeFirst
    \/ EncodeTests
    \/ EncodeGets
    \/ RecordScreenEnds

SpecRec == InitRec /\ [][NextRec]_vars

\* The steps of the capture process, the encode process and the thread of
\* session s. Each is a process or thread of its own that the operating
\* system keeps scheduling; the clicks on the button are under no obligation.
CaptureScreen(s) == CaptureWhile(s) \/ CapturePut(s)
EncodeVideo(s) == EncodeFirstFrame(s) \/ EncodeWhile(s) \/ EncodeGet(s)

RecFairness ==
    \A s \in 1..MaxSessions :
        /\ WF_vars(s \in DOMAIN sessions /\ CaptureScreen(s))
        /\ WF_vars(s \in DOMAIN sessions /\ EncodeVideo(s))
        /\ WF_vars(s \in DOMAIN sessions /\ RecordScreenReturns(s))

SpecRecLive == InitRec /\ [][NextRec]_vars /\ RecFairness

----------------------------------------------------------------------------
(* app.py: the playback *)

\* automate_workflow as its thread starts: about to call the model, no OS
\* action issued yet.
NewRun == [pc |-> "call", actions |-> 0]

InitPlay ==
    /\ recording_event = FALSE
    /\ sessions = <<>>
    /\ runs = <<>>
    /\ osTrace = <<>>
    /\ WorkflowIdle

\* CycleApp._playback_workflow: nothing happens without a selection, without
\* the transcript, without an instruction or without the confirmation;
\* otherwise a thread is started on automate_workflow. Runs that are under
\* way are not looked at.
PlaybackWorkflow ==
    /\ \E selected \in BOOLEAN, transcript_exists \in BOOLEAN,
          instruction \in {None, Some(<<>>), Some(<<"go">>)}, proceed \in BOOLEAN :
          IF selected /\ transcript_exists /\ Truthy(instruction) /\ proceed
          THEN /\ Len(runs) < MaxRuns
               /\ runs' = Append(runs, NewRun)
          ELSE UNCHANGED runs
    /\ UNCHANGED <<recording_event, sessions, osTrace>>
    /\ UNCHANGED workflowVars

\* One iteration of the loop of run r up to its tool calls: the response
\* asks for a tool, or it does not and the run returns.
RunCalls(r) ==
    /\ runs[r].pc = "call"
    /\ \/ /\ runs[r].actions < MaxActions
          /\ runs' = [runs EXCEPT ![r].pc = "tool"]
       \/ runs' = [runs EXCEPT ![r].pc = "return"]
    /\ UNCHANGED <<recording_event, sessions, osTrace>>
    /\ UNCHANGED workflowVars

\* The executor of run r issues its OS action through pyautogui.
RunDrivesOs(r) ==
    /\ runs[r].pc = "tool"
    /\ runs' = [runs EXCEPT ![r].pc = "call", ![r].actions = @ + 1]
    /\ osTrace' = Append(osTrace, r)
    /\ UNCHANGED <<recording_event, sessions>>
    /\ UNCHANGED workflowVars

ModelCalls == \E r \in DOMAIN runs : RunCalls(r)
OsActions == \E r \in DOMAIN runs : RunDrivesOs(r)

NextPlay ==
    \/ PlaybackWorkflow
    \/ ModelCalls
    \/ OsActions

SpecPlay == InitPlay /\ [][NextPlay]_vars

----------------------------------------------------------------------------
(* Vocabulary of the properties *)

Last(s) == s[Len(s)]

IsToolUse(b) == b.type = "tool_use"
ToolUses(c) == SelectSeq(c, IsToolUse)
NoToolUse(c) == \A k \in 1..Len(c) : c[k].type # "tool_use"

BlockIds(bs) == [k \in 1..Len(bs) |-> bs[k].id]
ResultIds(rs) == [k \in 1..Len(rs) |-> rs[k].tool_use_id]

\* The payloads of the image blocks of a history, oldest first.
RECURSIVE ItemPayloads(_)
ItemPayloads(items) ==
    IF items = <<>> THEN <<>>
    ELSE (IF Head(items).type = "image" THEN <<Head(items).data>> ELSE <<>>)
         \o ItemPayloads(Tail(items))

RECURSIVE ResultPayloads(_)
ResultPayloads(rs) ==
    IF rs = <<>> THEN <<>>
    ELSE ItemPayloads(Head(rs).content.items) \o ResultPayloads(Tail(rs))

RECURSIVE ImagePayloads(_)
ImagePayloads(msgs) ==
    IF msgs = <<>> THEN <<>>
    ELSE ResultPayloads(Head(msgs).results) \o ImagePayloads(Tail(msgs))

\* The assistant messages stored so far, and the k-th of them.
NumStored == Len(messages) \div 2
Stored(k) == messages[2 * k].blocks

\* Iterations that ended with a tool_result message.
DispatchingIterations == (Len(messages) - 1) \div 2

\* The for loop is at block idx of content, or was when the run was aborted.
InForLoop ==
    \/ pc \in {"dispatch", "os"}
    \/ pc = "raised" /\ exc.at \in {"executor", "persist"}

\* The results collected so far in the for loop, by position.
Collected == IF InForLoop THEN 1..Len(tool_result_content) ELSE {}

IsGrounding(b) ==
    /\ b.type = "tool_use"
    /\ b.name = "computer"
    /\ b.input = Screenshot
    /\ b.id[1] = "screenshot_"

\* stored is raw with one grounding screenshot at its end (wanted), or raw.
InjectionIs(raw, stored, wanted) ==
    IF wanted
    THEN /\ Len(stored) = Len(raw) + 1
         /\ SubSeq(stored, 1, Len(raw)) = raw
         /\ IsGrounding(Last(stored))
    ELSE stored = raw

----------------------------------------------------------------------------
(* Properties *)

\* C1: a response without a tool_use block is stored as an assistant message,
\* dispatches nothing and ends the run normally, with no further model call.
C1_NoToolUseEndsRun ==
    (received # <<>> /\ NoToolUse(Last(received)) /\ pc # "respond") =>
        /\ pc \in {"dispatch", "done"}
        /\ exc = NoExc
        /\ Last(messages) = BlocksMessage("assistant", Last(received))
        /\ tool_result_content = <<>>

\* C2: click (100,100), then screenshot, then text only: the run ends normally
\* after 2 dispatching iterations and 3 model calls, a screenshot injected into
\* the first response and none into the second.
EndToEndResponses ==
    << WithIds(<<Use("computer", Click100)>>, 1),
       WithIds(<<Use("computer", Screenshot)>>, 2),
       WithIds(<<Say>>, 3) >>

C2_EndToEnd ==
    (received = EndToEndResponses /\ pc \in {"done", "raised"}) =>
        /\ pc = "done"
        /\ Len(received) = 3
        /\ DispatchingIterations = 2
        /\ InjectionIs(received[1], Stored(1), TRUE)
        /\ InjectionIs(received[2], Stored(2), FALSE)

\* C3 as stated: a stored response carries one grounding screenshot at its end
\* exactly when the last block of the response is a tool_use whose action is
\* not screenshot, and is otherwise stored as received.
ClaimedInjection(raw) ==
    /\ raw # <<>>
    /\ Last(raw).type = "tool_use"
    /\ Last(raw).input.action # Some("screenshot")

C3_InjectionAsStated ==
    \A k \in 1..NumStored :
        InjectionIs(received[k], Stored(k), ClaimedInjection(received[k]))

\* C3 amended: ... exactly when the last block is a tool_use with a non-empty
\* input whose action is not screenshot (an input without an action key
\* counts as not screenshot); nothing is inserted anywhere but at the end.
C3_Injection ==
    \A k \in 1..NumStored :
        InjectionIs(received[k], Stored(k),
                    ClaimedInjection(received[k]) /\ Last(received[k]).input # EmptyInput)

C3_Witness ==
    /\ NumStored >= 2
    /\ InjectionIs(received[1], Stored(1), TRUE)
    /\ Len(received[2]) = 2
    /\ received[2][1].input.action = Some("left_click")
    /\ received[2][2].input.action = Some("screenshot")
    /\ Stored(2) = received[2]

\* C4: the tool_use blocks of a response are dispatched in response order, one
\* at a time; an OS action runs only inside the dispatch of its block, never
\* two at once; the model is called again only after all results are appended.
C4_Sequential ==
    /\ Len(inflight) <= 1
    /\ inflight # <<>> => pc = "os"
    /\ pc = "os" => IsToolUse(content[idx])
    /\ pc \in {"dispatch", "os"} =>
          ResultIds(tool_result_content) = BlockIds(ToolUses(SubSeq(content, 1, idx - 1)))
    /\ (pc \in {"prune", "call", "respond"} /\ Len(messages) > 1) =>
          /\ Last(messages).kind = "results"
          /\ ResultIds(Last(messages).results) =
                BlockIds(ToolUses(messages[Len(messages) - 1].blocks))

C4_Witness ==
    /\ pc = "os"
    /\ Len(inflight) = 1
    /\ idx = 2
    /\ Len(tool_result_content) = 1

\* C5: a tool_use naming no registered tool yields an error result whose text
\* contains the name; no executor is invoked for it and nothing is raised.
C5_UnknownTool ==
    /\ \A k \in Collected :
          LET use == ToolUses(content)[k]
              tr == tool_result_content[k]
          IN  use.name \notin ToolMap =>
                 /\ tr.tool_use_id = use.id
                 /\ tr.is_error
                 /\ tr.content.kind = "str"
                 /\ \E j \in 1..Len(tr.content.text) : tr.content.text[j] = use.name
    /\ \A m \in 1..Len(messages) : \A k \in 1..Len(messages[m].blocks) :
          LET b == messages[m].blocks[k]
          IN  (IsToolUse(b) /\ b.name \notin ToolMap) =>
                 \A j \in 1..Len(invoked) : invoked[j] # b.id
    /\ pc = "os" => content[idx].name \in ToolMap
    /\ (pc = "raised" /\ exc.at = "executor") => content[idx].name \in ToolMap

C5_Witness ==
    /\ pc = "dispatch"
    /\ Len(tool_result_content) = 1
    /\ ToolUses(content)[1].name = "bash"
    /\ result = ToolFailure(<<"Tool ", "bash", " is invalid">>)

\* C6: when the executor of a registered tool raises ToolError(message), run
\* returns a ToolResult whose error is that message and whose other fields are
\* unset; the ToolError does not reach the driver.
C6_ToolErrorIsFailure ==
    executorRaised.kind = "ToolError" =>
        /\ result = ToolResult(None, Some(executorRaised.message), None, None)
        /\ ~(pc = "raised" /\ exc.at = "executor")
        /\ tool_result_content # <<>>
        /\ Last(tool_result_content).is_error
        /\ Last(tool_result_content).content = StrContent(executorRaised.message)

C6_Witness ==
    /\ pc = "dispatch"
    /\ executorRaised.kind = "ToolError"
    /\ result.error = Some(<<"Coordinate is not accepted for ", "left_click", ".">>)

\* C7: an error of the executor that is no ToolError leaves run and
\* automate_workflow as it was raised; the iteration's assistant message stays
\* the last message, no tool_result message is appended.
C7_OtherErrorPropagates ==
    executorRaised.kind \notin {"", "ToolError"} =>
        /\ pc = "raised"
        /\ exc = [kind |-> executorRaised.kind, at |-> "executor"]
        /\ Last(messages) = BlocksMessage("assistant", content)
        /\ Len(messages) = 2 * Len(received)

C7_Witness ==
    /\ pc = "raised"
    /\ executorRaised.kind = "OSError"
    /\ exc.kind = "OSError"
    /\ tool_result_content # <<>>

\* C8: a computer tool_use with bad or missing action parameters yields an
\* is_error tool_result and raises nothing into the driver.
BadParameters(in) ==
    \/ in.action = None
    \/ /\ in.action # None
       /\ in.action[1] \in MoveActions
       /\ \/ in.coordinate = None
          \/ in.text # None
          \/ ~IsListOfTwo(in.coordinate[1])
          \/ ~AllNonNegativeInts(in.coordinate[1])
    \/ /\ in.action # None
       /\ in.action[1] \in TextActions
       /\ \/ in.text = None
          \/ in.coordinate # None
          \/ in.text[1].t # "str"
    \/ /\ in.action # None
       /\ in.action[1] \in PlainActions
       /\ (in.text # None \/ in.coordinate # None)

C8_ValidationNonFatal ==
    /\ (pc = "raised" /\ exc.at = "executor") =>
          ~(content[idx].name \in ToolMap /\ BadParameters(content[idx].input))
    /\ \A k \in Collected :
          LET use == ToolUses(content)[k]
          IN  (use.name \in ToolMap /\ BadParameters(use.input)) =>
                 tool_result_content[k].is_error

\* C9: pruning removes exactly the max(0, N - K) oldest image blocks, so that
\* the K newest remain, and changes nothing when N <= K.
C9_PruneOldest ==
    pc = "filtered" =>
        LET old == ImagePayloads(before)
            new == ImagePayloads(messages)
            N == Len(old)
            K == images_to_keep
        IN  /\ Len(new) = N - Max(0, N - K)
            /\ new = SubSeq(old, N - Len(new) + 1, N)
            /\ N <= K => messages = before

C9_Witness ==
    /\ pc = "filtered"
    /\ images_to_keep = 2
    /\ Len(before) = 11
    /\ \A m \in 1..Len(before) :
          before[m].kind = "results" =>
             /\ Len(before[m].results) = 1
             /\ Len(before[m].results[1].content.items) = 1
    /\ Len(ImagePayloads(before)) = 5
    /\ ImagePayloads(messages) = << <<"png", "4">>, <<"png", "5">> >>

\* C10: the history a model request is made with holds at most
\* images_to_keep image blocks.
C10_BoundedHistory ==
    pc = "call" => Len(ImagePayloads(messages)) <= images_to_keep

C10_Witness ==
    /\ pc = "call"
    /\ images_to_keep = 1
    /\ Len(ImagePayloads(before)) = 3
    /\ Len(ImagePayloads(messages)) = 1

\* C11: a model request is attempted at most MaxAttempts = 3 times in an
\* iteration; a request is pending only while fewer than 3 attempts have
\* failed, a success leaves no attempt outstanding, and when the third attempt
\* fails the failure leaves the run: the history is what the pruning left, no
\* response was received for the iteration and no executor is running.
C11_BoundedRetry ==
    /\ attempts <= MaxAttempts
    /\ pc = "call" => attempts < MaxAttempts
    /\ (pc # "call" /\ ~(pc = "raised" /\ exc.at = "model")) => attempts = 0
    /\ (pc = "raised" /\ exc.at = "model") =>
          /\ attempts = MaxAttempts
          /\ messages = FilterToNMostRecentImages(before, images_to_keep)
          /\ Len(messages) = 2 * Len(received) + 1
          /\ Last(messages).role = "user"
          /\ osQueue = <<>> /\ inflight = <<>>

C11_Witness ==
    /\ pc = "raised"
    /\ exc = [kind |-> "APIConnectionError", at |-> "model"]
    /\ attempts = MaxAttempts
    /\ Len(received) = 1
    /\ Len(messages) = 3

\* C12: a response whose content has no block is a fatal error: once it is
\* received the run is aborted, it does not go on and does not end normally.
C12_EmptyResponseFatal ==
    (received # <<>> /\ Last(received) = <<>>) => pc \in {"respond", "raised"}

\* The call of the executor for the first block is over and the next block
\* is not yet looked at.
FirstCallOver == pc = "dispatch" /\ idx = 2

TwoNonNegativeInts(v) ==
    v.t = "list" /\ Len(v.n) = 2 /\ v.n[1] >= 0 /\ v.n[2] >= 0

ContractBroken(in) ==
    /\ in.action # None
    /\ \/ /\ in.action[1] \in {"mouse_move", "left_click_drag"}
          /\ \/ in.coordinate = None
             \/ in.text # None
             \/ ~TwoNonNegativeInts(in.coordinate[1])
       \/ /\ in.action[1] \in {"key", "type"}
          /\ (in.text = None \/ in.coordinate # None)
       \/ /\ in.action[1] \in {"left_click", "right_click", "double_click",
                               "screenshot", "cursor_position"}
          /\ (in.text # None \/ in.coordinate # None)

\* C13: the computer tool raises ToolError for mouse_move and left_click_drag
\* without a coordinate, with a text, or with a coordinate that is no list of
\* two non-negative integers; for key and type without a text or with a
\* coordinate; for the five plain actions with a text or a coordinate. It does
\* so before any OS call: no call is started, the pointer has not moved and
\* nothing was captured.
C13_ParameterContract ==
    ContractBroken(content[1].input) =>
        /\ idx = 1 => (pc = "dispatch" /\ osLog = <<>> /\ inflight = <<>>)
        /\ FirstCallOver =>
              /\ executorRaised.kind = "ToolError"
              /\ result.error # None
              /\ osLog = <<>> /\ osQueue = <<>> /\ inflight = <<>>
              /\ pointer = <<0, 0>>
              /\ nShots = 0

C13_Witness ==
    /\ FirstCallOver
    /\ content[1].input = Input(Some("left_click_drag"), None, Some(ListV(<<1, 2, 3>>)))
    /\ executorRaised = [kind |-> "ToolError",
                         message |-> <<"Coordinate must be a list of length 2.">>]
    /\ osLog = <<>>

OutOfRange(scr, in) ==
    /\ in.action # None
    /\ in.action[1] \in {"mouse_move", "left_click_drag"}
    /\ in.text = None
    /\ in.coordinate # None
    /\ in.coordinate[1].t = "list"
    /\ Len(in.coordinate[1].n) = 2
    /\ LET x == in.coordinate[1].n[1]
           y == in.coordinate[1].n[2]
       IN  x < 0 \/ y < 0 \/ x >= scr.target_width \/ y >= scr.target_height

Unrecognized(in) ==
    /\ in.action # None
    /\ in.action[1] \notin {"key", "type", "mouse_move", "left_click",
                            "left_click_drag", "right_click", "double_click",
                            "screenshot", "cursor_position"}

\* C14: mouse_move and left_click_drag with a coordinate outside the API
\* screen (x < 0, y < 0, x >= target width or y >= target height) raise
\* ToolError and leave the pointer where it was; an action name that is not
\* recognized raises ToolError.
C14_RangeAndActionChecked ==
    LET in == content[1].input
    IN  (OutOfRange(screen, in) \/ Unrecognized(in)) =>
           /\ idx = 1 => (pc = "dispatch" /\ pointer = <<0, 0>>)
           /\ FirstCallOver =>
                 (executorRaised.kind = "ToolError" /\ pointer = <<0, 0>>)

Dist(a, b) == IF a > b THEN a - b ELSE b - a

\* C15: for every screen and every in-bounds API coordinate, scaling it to
\* the real screen and the result back to the API screen gives a coordinate
\* that differs from the first by at most 1 on each axis.
C15_RoundTrip ==
    (calc.op = "scale" /\ calc.back # <<>>) =>
        /\ Dist(calc.back[1], calc.x) <= 1
        /\ Dist(calc.back[2], calc.y) <= 1

C15_Witness ==
    /\ calc.op = "scale"
    /\ screen.width = 3024
    /\ screen.target_height = 831
    /\ calc.x = 40 /\ calc.y = 830
    /\ calc.real = <<95, 1962>>
    /\ calc.back = <<40, 830>>

TextFields == {"output", "error", "system"}

\* C16 as stated: a ToolResult is true exactly when at least one of output,
\* error, base64_image and system is set, that is, is not None.
C16_TruthIffSet ==
    (calc.op = "result" /\ calc.truth # <<>>) =>
        (calc.truth[1] <=> \E f \in ResultFields : calc.a[f] # None)

\* C16: a ToolResult is true exactly when at least one of output, error,
\* base64_image and system holds a non-empty value; a field set to the empty
\* string counts no more than a field that is not set.
C16_TruthIffNonEmpty ==
    (calc.op = "result" /\ calc.truth # <<>>) =>
        (calc.truth[1] <=> \E f \in ResultFields :
                                calc.a[f] # None /\ calc.a[f][1] # <<>>)

C16_Witness ==
    /\ calc.op = "result"
    /\ calc.a = ToolResult(Some(<<>>), None, None, None)
    /\ calc.truth = <<FALSE>>

\* What a + b should hold in a text field, with "set" read as "not None".
MergedAsStated(x, y) ==
    IF x # None /\ y # None THEN Some(x[1] \o y[1])
    ELSE IF x # None THEN x ELSE y

\* What a + b holds in a text field, with "set" read as "non-empty".
MergedNonEmpty(x, y) ==
    IF Truthy(x) /\ Truthy(y) THEN Some(x[1] \o y[1])
    ELSE IF Truthy(x) THEN x ELSE y

Merging == calc.op = "result" /\ calc.merged = <<>> /\ calc'.merged # <<>>

\* C17 as stated: the merge a + b holds, in each of output, error and system,
\* a's value followed by b's when both are set (not None), otherwise the one
\* that is set, or None; a and b are as they were.
C17_MergeAsStated ==
    [][Merging =>
          /\ calc'.a = calc.a /\ calc'.b = calc.b
          /\ ~calc'.merged[1].raised =>
                \A f \in TextFields :
                    calc'.merged[1].value[f] = MergedAsStated(calc.a[f], calc.b[f])]_vars

\* C17: when a + b gives a result, it holds in each of output, error and
\* system a's value followed by b's when both are non-empty, otherwise a's
\* value when that is non-empty, otherwise b's value whatever it is; a and b
\* are as they were.
C17_Merge ==
    [][Merging =>
          /\ calc'.a = calc.a /\ calc'.b = calc.b
          /\ ~calc'.merged[1].raised =>
                \A f \in TextFields :
                    calc'.merged[1].value[f] = MergedNonEmpty(calc.a[f], calc.b[f])]_vars

C17_Witness ==
    /\ calc.op = "result"
    /\ calc.a = ToolResult(Some(<<>>), Some(<<"a">>), None, Some(<<"a">>))
    /\ calc.b = ToolResult(None, Some(<<"b">>), Some(<<"b">>), None)
    /\ calc.merged = <<[raised |-> FALSE,
                        value |-> ToolResult(None, Some(<<"a", "b">>), Some(<<"b">>),
                                             Some(<<"a">>))]>>

\* C18: a + b fails when a and b both carry an image (a non-empty
\* base64_image), whatever their other fields hold, and then there is no
\* merged result; when at most one of them carries an image the merge gives a
\* result, whose image is that of the side that carries one.
C18_ImageConflict ==
    (calc.op = "result" /\ calc.merged # <<>>) =>
        LET ia == calc.a.base64_image
            ib == calc.b.base64_image
            m == calc.merged[1]
        IN  /\ m.raised <=> (Truthy(ia) /\ Truthy(ib))
            /\ m.raised => m.value = NoResult
            /\ (~m.raised /\ Truthy(ia)) => m.value.base64_image = ia
            /\ (~m.raised /\ Truthy(ib)) => m.value.base64_image = ib
            /\ (~Truthy(ia) /\ ~Truthy(ib)) => ~Truthy(m.value.base64_image)

C18_Witness ==
    /\ calc.op = "result"
    /\ calc.a = ToolResult(Some(<<"a">>), None, Some(<<"a">>), None)
    /\ calc.b = ToolResult(None, Some(<<"b">>), Some(<<"b">>), None)
    /\ calc.merged = <<[raised |-> TRUE, value |-> NoResult]>>

\* The aliases and what they stand for, as <<alias, key>> pairs.
Aliases ==
    { <<<<"s", "u", "p", "e", "r">>, <<"c", "o", "m", "m", "a", "n", "d">>>>,
      <<<<"c", "m", "d">>, <<"c", "o", "m", "m", "a", "n", "d">>>>,
      <<<<"o", "p", "t", "i", "o", "n">>, <<"a", "l", "t">>>>,
      <<<<"c", "o", "n", "t", "r", "o", "l">>, <<"c", "t", "r", "l">>>>,
      <<<<"r", "e", "t", "u", "r", "n">>, <<"e", "n", "t", "e", "r">>>>,
      <<<<"e", "s", "c", "a", "p", "e">>, <<"e", "s", "c">>>>,
      <<<<"s", "p", "a", "c", "e", "b", "a", "r">>, <<"s", "p", "a", "c", "e">>>> }

\* The position of the k-th "+" of a text.
PlusAt(text, k) ==
    CHOOSE p \in 1..Len(text) :
        text[p] = "+" /\ Cardinality({q \in 1..p : text[q] = "+"}) = k

\* The i-th of the n parts that the "+" of a text delimit.
PartOf(text, i, n) ==
    LET lo == IF i = 1 THEN 0 ELSE PlusAt(text, i - 1)
        hi == IF i = n THEN Len(text) + 1 ELSE PlusAt(text, i)
    IN  SubSeq(text, lo + 1, hi - 1)

Contains(s, w) == \E k \in 1..(Len(s) - Len(w) + 1) : SubSeq(s, k, k + Len(w) - 1) = w

\* C19: the key sequence of a text has one key for each part that the "+" of
\* the text delimit, in the order of the parts: the key of a part that, trimmed
\* and in lower case, is an alias is what the alias stands for (super and cmd:
\* command, option: alt, control: ctrl, return: enter, escape: esc, spacebar:
\* space), and the key of any other part that does not hold "super" is the
\* part itself, trimmed and in lower case. "ctrl+shift+esc" gives ctrl,
\* shift, esc; "cmd+c" gives command, c. The key sequence of a key sequence
\* is that key sequence.
C19_KeyNormalization ==
    (calc.op = "keys" /\ calc.keys # <<>>) =>
        LET n == CountOf(calc.text, "+") + 1
        IN  /\ Len(calc.keys) = n
            /\ \A i \in 1..n :
                  LET part == Strip(StrLower(PartOf(calc.text, i, n)))
                  IN  /\ \A al \in Aliases : part = al[1] => calc.keys[i] = al[2]
                      /\ ((\A al \in Aliases : part # al[1])
                             /\ ~Contains(part, <<"s", "u", "p", "e", "r">>)) => calc.keys[i] = part
            /\ calc.text = <<"c", "t", "r", "l", "+", "s", "h", "i", "f", "t", "+", "e", "s", "c">> => calc.keys = <<<<"c", "t", "r", "l">>, <<"s", "h", "i", "f", "t">>, <<"e", "s", "c">>>>
            /\ calc.text = <<"c", "m", "d", "+", "c">> => calc.keys = <<<<"c", "o", "m", "m", "a", "n", "d">>, <<"c">>>>
            /\ calc.again # <<>> => calc.again = calc.keys

C19_Witness ==
    /\ calc.op = "keys"
    /\ calc.text = <<" ", "C", "o", "n", "t", "r", "o", "l", " ", "+", " ", "R", "e", "t", "u", "r", "n", " ", "+", "c", "m", "d">>
    /\ calc.keys = <<<<"c", "t", "r", "l">>, <<"e", "n", "t", "e", "r">>, <<"c", "o", "m", "m", "a", "n", "d">>>>
    /\ calc.again = calc.keys

\* C20: when the file of a screenshot cannot be written, the failure does
\* not end the run: the run is not left with the error of the write.
C20_PersistFailureNonFatal ==
    (exc.kind = "OSError" /\ exc.at = "persist") => pc # "raised"

Transient(kind) == kind = "APIConnectionError"

\* C25: a failure of the model request that is not transient is not followed
\* by another attempt: it is the last failure of the request and the run is
\* aborted with it.
C25_OnlyTransientRetried ==
    \A i \in 1..Len(failures) :
        ~Transient(failures[i]) =>
            (i = Len(failures) /\ pc = "raised" /\ exc.kind = failures[i])

SystemTagged(sys, text) == <<"<system>">> \o sys \o <<"</system>\n">> \o text

\* The block C21 describes for a ToolResult r and an id, where has(v) tells
\* whether a field counts as set.
DescribedBlock(r, id, has(_)) ==
    LET prefixed(text) == IF has(r.system) THEN SystemTagged(r.system[1], text) ELSE text
    IN  [type |-> "tool_result",
         tool_use_id |-> id,
         is_error |-> has(r.error),
         content |->
            IF has(r.error)
            THEN StrContent(prefixed(r.error[1]))
            ELSE ListContent(
                    (IF has(r.output) THEN <<TextItem(prefixed(r.output[1]))>> ELSE <<>>)
                    \o (IF has(r.base64_image)
                        THEN <<ImageItem(r.base64_image[1])>> ELSE <<>>))]

IsSet(v) == v # None
IsNonEmpty(v) == v # None /\ v[1] # <<>>

\* C21 as stated: the tool_result block of a ToolResult carries the given id;
\* is_error is true exactly when error is set (not None); with error set the
\* content is the error text, system-prefixed when system is set, and no
\* image; otherwise it is the list of the output as a text block
\* (system-prefixed the same way) when output is set, then the image as an
\* image block when an image is set.
C21_BlockAsStated ==
    (calc.op = "api" /\ calc.block # <<>>) =>
        calc.block[1] = DescribedBlock(calc.a, calc.id, IsSet)

\* C21: the same with "set" read as "holds a non-empty value": an error,
\* output, image or system that is the empty string counts as absent.
C21_Block ==
    (calc.op = "api" /\ calc.block # <<>>) =>
        calc.block[1] = DescribedBlock(calc.a, calc.id, IsNonEmpty)

C21_Witness ==
    /\ calc.op = "api"
    /\ calc.a = ToolResult(Some(<<"a">>), Some(<<>>), Some(<<"a">>), Some(<<"a">>))
    /\ calc.id = <<"toolu_1_1">>
    /\ calc.block # <<>>
    /\ ~calc.block[1].is_error
    /\ calc.block[1].content =
          ListContent(<<TextItem(<<"<system>", "a", "</system>\n", "a">>),
                        ImageItem(<<"a">>)>>)

C23_ModelDecidesTermination ==
    /\ pc = "done" => (received # <<>> /\ NoToolUse(Last(received)))
    /\ (pc = "dispatch" /\ idx > Len(content) /\ ~NoToolUse(Last(received))) =>
          tool_result_content # <<>>
    /\ (pc \in {"prune", "call"} /\ received # <<>>) =>
          (~NoToolUse(Last(received)) /\ Last(messages).kind = "results")

C23_Witness ==
    /\ pc = "call"
    /\ Len(received) = MaxCalls
    /\ \A k \in 1..Len(received) : ~NoToolUse(received[k])
    /\ Len(messages) = 2 * MaxCalls + 1

\* The tool_use blocks the run has gone through: those of the iterations
\* that are over, and in the current one those up to the block at idx.
RECURSIVE UsesThrough(_)
UsesThrough(k) ==
    IF k = 0 THEN 0 ELSE Len(ToolUses(messages[2 * k].blocks)) + UsesThrough(k - 1)

UsesSoFar ==
    UsesThrough(DispatchingIterations)
        + (IF InForLoop
           THEN Len(ToolUses(SubSeq(content, 1, Min(idx, Len(content)))))
           ELSE 0)

IsNoImage(item) == item.type # "image"

\* short is long with some of its elements left out.
RECURSIVE IsSubSeqOf(_, _)
IsSubSeqOf(short, long) ==
    IF short = <<>> THEN TRUE
    ELSE IF long = <<>> THEN FALSE
    ELSE IF Head(short) = Head(long) THEN IsSubSeqOf(Tail(short), Tail(long))
    ELSE IsSubSeqOf(short, Tail(long))

\* new is the tool_result old, but for image blocks taken out of its list.
ResultFrame(old, new) ==
    /\ new.type = old.type
    /\ new.tool_use_id = old.tool_use_id
    /\ new.is_error = old.is_error
    /\ new.content.kind = old.content.kind
    /\ new.content.text = old.content.text
    /\ SelectSeq(new.content.items, IsNoImage) = SelectSeq(old.content.items, IsNoImage)
    /\ IsSubSeqOf(new.content.items, old.content.items)

MessageFrame(old, new) ==
    /\ new.role = old.role
    /\ new.kind = old.kind
    /\ new.text = old.text
    /\ new.blocks = old.blocks
    /\ Len(new.results) = Len(old.results)
    /\ \A j \in 1..Len(old.results) : ResultFrame(old.results[j], new.results[j])

\* C26: no step of a run removes or reorders a message or changes its role:
\* every message stays at its place, and what a step changes in it is image
\* blocks taken out of tool_result lists, everything else (assistant messages,
\* ids, is_error, text blocks, string contents, the order of what remains)
\* being as before; only the pruning changes a stored message at all.
C26_AppendOnlyFrame ==
    [][/\ Len(messages') >= Len(messages)
       /\ \A k \in 1..Len(messages) : MessageFrame(messages[k], messages'[k])
       /\ pc # "prune" => SubSeq(messages', 1, Len(messages)) = messages]_vars

C26_Witness ==
    /\ pc = "call"
    /\ Len(messages) = 3
    /\ Len(before) = 3
    /\ Len(before[3].results) = 2
    /\ before[3].results[1].content.items = <<TextItem(<<"Left click performed.">>)>>
    /\ before[3].results[2].content.items = <<ImageItem(<<"png", "1">>)>>
    /\ messages[3].results[1] = before[3].results[1]
    /\ messages[3].results[2].content.items = <<>>
    /\ messages[2] = before[2]

\* The Action enumeration of the tool's interface.
ActionEnumeration ==
    {"key", "type", "mouse_move", "left_click", "left_click_drag",
     "right_click", "middle_click", "double_click", "screenshot",
     "cursor_position"}

\* The parameters satisfy the contract of the action.
ContractMet(in) ==
    /\ in.action # None
    /\ in.action[1] \in ActionEnumeration
    /\ \/ /\ in.action[1] \in {"mouse_move", "left_click_drag"}
          /\ in.text = None
          /\ in.coordinate # None
          /\ TwoNonNegativeInts(in.coordinate[1])
       \/ /\ in.action[1] \in {"key", "type"}
          /\ in.coordinate = None
          /\ in.text # None
          /\ in.text[1].t = "str"
       \/ /\ in.action[1] \in {"left_click", "right_click", "middle_click",
                               "double_click", "screenshot", "cursor_position"}
          /\ in.text = None
          /\ in.coordinate = None

\* C27: every action of the enumeration, middle_click included, called with
\* parameters that meet its contract, is performed: the call raises no
\* ToolError and its result is no failure.
C27_EveryActionExecutes ==
    (FirstCallOver /\ ContractMet(content[1].input)) =>
        (executorRaised.kind # "ToolError" /\ result.error = None)

\* C28: the scaling context is the one construction computes from the real
\* size W x H: for W above MAX_WIDTH the target width is MAX_WIDTH and the
\* target height is H * MAX_WIDTH / W; otherwise the target is the real size;
\* the target exceeds neither MAX_WIDTH nor the real size. It is so before and
\* after every scaling of a coordinate.
C28_ScalingContext ==
    /\ screen.width > 0 /\ screen.height > 0
    /\ IF screen.width > MAX_WIDTH
       THEN /\ screen.target_width = MAX_WIDTH
            /\ screen.target_height * screen.width = screen.height * MAX_WIDTH
       ELSE /\ screen.target_width = screen.width
            /\ screen.target_height = screen.height
    /\ screen.target_width <= MAX_WIDTH
    /\ screen.target_width <= screen.width
    /\ screen.target_height <= screen.height

DuplicateNames(tools) ==
    \E i \in DOMAIN tools, j \in DOMAIN tools : i # j /\ tools[i].name = tools[j].name

\* C29: a collection built from executors of which two declare the same name
\* is rejected; a collection that is built routes every tool spec that
\* to_params advertises to the executor the spec was made from; a run through
\* the collection leaves the registry as construction made it.
C29_UniqueRegistry ==
    (calc.op = "collection" /\ calc.built # <<>>) =>
        LET coll == calc.built[1]
        IN  /\ DuplicateNames(calc.tools) => coll.rejected
            /\ ~coll.rejected =>
                  \A i \in DOMAIN ToParams(coll) :
                      ToolMapGet(coll, ToParams(coll)[i]) = Some(coll.tools[i])
            /\ coll.tool_map = ToolCollectionInit(calc.tools).tool_map

ToolUsePositions ==
    {p \in (1..NumStored) \X (1..MaxHistory + 2) :
        /\ p[2] <= Len(Stored(p[1]))
        /\ IsToolUse(Stored(p[1])[p[2]])}

\* C31: no two tool_use blocks of the conversation share an id, the
\* grounding screenshots injected in different iterations included, also
\* when the iterations inject within the same clock second.
C31_UniqueToolUseIds ==
    \A p \in ToolUsePositions, q \in ToolUsePositions :
        Stored(p[1])[p[2]].id = Stored(q[1])[q[2]].id => p = q

\* The payloads of the first n screenshots of a run, in the order taken.
Produced(n) == [k \in 1..n |-> <<"png", ToString(k)>>]

IsSuffixOf(s, t) ==
    Len(s) <= Len(t) /\ s = SubSeq(t, Len(t) - Len(s) + 1, Len(t))

\* The history holds every tool result of the iterations made so far.
HistoryComplete == pc \in {"prune", "call", "respond", "done"}

PrunedTwiceIsPrunedOnce ==
    pc = "call" =>
        FilterToNMostRecentImages(messages, images_to_keep) = messages

RetainedIsSuffix ==
    /\ HistoryComplete =>
          IsSuffixOf(ImagePayloads(messages), Produced(nShots))
    /\ pc = "dispatch" =>
          IsSuffixOf(ImagePayloads(messages) \o ResultPayloads(tool_result_content),
                     Produced(nShots))

\* An image of the next history that is not in this one comes with the tool
\* results just collected, and the images kept stay in their order.
NothingReappears ==
    LET old == ImagePayloads(messages)
        new == ImagePayloads(messages')
    IN  IF pc = "prune"
        THEN IsSuffixOf(new, old)
        ELSE new = old \/ new = old \o ResultPayloads(tool_result_content)

\* C32: pruning a pruned history again with the same K changes nothing; the
\* images a history retains are always the most recent of all the images the
\* run has produced; and an image that was removed never comes back: a step
\* either drops the oldest images or adds the ones just collected.
C32_PruneIdempotentMonotone ==
    /\ [](PrunedTwiceIsPrunedOnce /\ RetainedIsSuffix)
    /\ [][NothingReappears]_vars

C32_Witness ==
    /\ pc = "call"
    /\ images_to_keep = 1
    /\ nShots = 3
    /\ Len(ImagePayloads(before)) = 2
    /\ ImagePayloads(messages) = << <<"png", "3">> >>

AllReturned == \A s \in DOMAIN sessions : sessions[s].thread = "returned"

\* C33: if from some moment on the recording event stays clear, then from
\* some moment on every record_screen thread has returned, its capture
\* process and its encode process having ended.
C33_RecordingShutsDown ==
    <>[](~recording_event) => <>[]AllReturned

\* The sessions of which a process is still running.
RunningSessions ==
    {s \in DOMAIN sessions :
        sessions[s].capture # "return" \/ sessions[s].encode # "return"}

NoneResumed == \A s \in DOMAIN sessions : ~sessions[s].resumed

\* C34: whatever the clicks on the record button, at most one capture/encode
\* pair is running, and no process of a session that was stopped finds the
\* event set again and goes on capturing or encoding.
C34_SingleSession ==
    /\ Cardinality(RunningSessions) <= 1
    /\ NoneResumed

\* The runs that have not returned.
RunningRuns == {r \in DOMAIN runs : runs[r].pc # "return"}

\* Between two OS actions of one run lies no OS action of another.
NotInterleaved ==
    \A i \in DOMAIN osTrace, j \in DOMAIN osTrace, k \in DOMAIN osTrace :
        (i < j /\ j < k /\ osTrace[i] = osTrace[k]) => osTrace[j] = osTrace[i]

\* C35: at most one automate_workflow run is under way at any time, a
\* playback started during another included, and the OS actions of two runs
\* never interleave.
C35_SingleRun ==
    /\ Cardinality(RunningRuns) <= 1
    /\ NotInterleaved

====
